---- MODULE Spec2Model ----
(***************************************************************************)
(* A model of the manticore-mcp-server query translation engine: the value *)
(* escaper of the documents handler, the text compiler (buildSQL), the     *)
(* boolean clause compiler (buildBoolQuery), the JSON compiler             *)
(* (BuildHTTPQuery), the dispatcher (Handler.Execute) and the MCP argument *)
(* mapper in front of it.                                                  *)
(*                                                                         *)
(* A Go string is a sequence of pieces.  A piece is one character of       *)
(* caller-supplied text, or a literal fragment the code writes.  A single  *)
(* quote and a backslash are always pieces of their own, so the escaping   *)
(* code is modelled character by character.                                *)
(***************************************************************************)
EXTENDS Integers, Sequences, FiniteSets, TLC

VARIABLES
    pc,         \* position of the call in flight
    value,      \* formatValue: the value handed in
    literal,    \* formatValue: the literal returned
    args,       \* the search.Args the compiler in flight works on
    sql,        \* buildSQL: the statement returned
    httpQuery,  \* BuildHTTPQuery: the document returned (Nil with an error)
    httpErr,    \* BuildHTTPQuery: the error returned (NoErr without one)
    wire,       \* handleSearchTool: the tool arguments (NoWire on a direct call)
    compiled,   \* Execute: the compilers run by the call, in order
    sent,       \* the statements handed to the client's ExecuteSQL, in order
    rows,       \* Execute: the result returned (Nil with an error)
    execErr,    \* Execute: the error returned (NoErr without one)
    response,   \* handleSearchTool: the Response returned
    cfg,        \* Client: its configuration (baseURL, maxRetries, retryDelay)
    req,        \* doRawRequest: its arguments (method, endpoint, query)
    ctx,        \* doRawRequest: the request context, and where it was cancelled
    attempt,    \* doRawRequest: the loop counter
    sel,        \* doRawRequest: the case the select of the delay has taken
    lastErr,    \* doRawRequest: the error of the last failed attempt
    events,     \* the attempts made and the delays waited out, in order
    ret         \* ExecuteSQL: what it returned

valueVars == <<value, literal>>
sqlVars == <<args, sql>>
httpVars == <<httpQuery, httpErr>>
execVars == <<wire, compiled, sent, rows, execErr, response>>
clientVars == <<cfg, req, ctx, attempt, sel, lastErr, events, ret>>
vars == <<pc, valueVars, sqlVars, httpVars, execVars, clientVars>>

(***************************************************************************)
(* Bounds of the model.                                                    *)
(***************************************************************************)
MaxLen == 3         \* longest caller-supplied text, in characters
MaxWhere == 2       \* longest where list
MaxClauses == 2     \* longest clause list of a bool query
MaxDepth == 1       \* deepest nesting of bool clauses inside a bool query

(***************************************************************************)
(* Strings.                                                                *)
(***************************************************************************)
Quote == "'"
Backslash == "\\"

\* the characters caller-supplied text is drawn from
Alphabet == {"a", "b", Quote, Backslash}

RECURSIVE StringsUpTo(_, _)
StringsUpTo(S, n) ==
    IF n = 0 THEN {<<>>}
    ELSE LET shorter == StringsUpTo(S, n - 1)
         IN  shorter \cup {Append(s, c) : s \in shorter, c \in S}

Texts == StringsUpTo(Alphabet, MaxLen)

Range(s) == {s[i] : i \in DOMAIN s}

\* strings.ReplaceAll(s, old, new) for a one-character old
RECURSIVE ReplaceAll(_, _, _)
ReplaceAll(s, old, new) ==
    IF s = <<>> THEN <<>>
    ELSE (IF Head(s) = old THEN new ELSE <<Head(s)>>)
         \o ReplaceAll(Tail(s), old, new)

Digits == <<"0", "1", "2", "3", "4", "5", "6", "7", "8", "9">>

\* strconv.Itoa / fmt.Sprintf("%d", n)
RECURSIVE ItoaNat(_)
ItoaNat(n) ==
    IF n < 10 THEN <<Digits[n + 1]>>
    ELSE Append(ItoaNat(n \div 10), Digits[(n % 10) + 1])

Itoa(n) == IF n < 0 THEN <<"-">> \o ItoaNat(-n) ELSE ItoaNat(n)

(***************************************************************************)
(* search.Args.  A nil pointer is NilPtr; a Go map is a function; a slice  *)
(* is a sequence.  ZeroArgs is the Go zero value of the struct.            *)
(***************************************************************************)
NilPtr == [kind |-> "nil"]

NoWeights == <<>>

ZeroArgs ==
    [Query |-> <<>>, Table |-> <<>>, Cluster |-> <<>>, BoolQuery |-> NilPtr,
     Limit |-> 0, Offset |-> 0, Fields |-> <<>>,
     Ranker |-> <<>>, MatchMode |-> <<>>, MaxMatches |-> 0, Cutoff |-> 0,
     MaxQueryTime |-> 0, FieldWeights |-> NoWeights, NotTermsOnlyAllowed |-> 0,
     BooleanSimplify |-> 0, AccurateAggregation |-> 0, RandSeed |-> 0,
     Comment |-> <<>>, AgentQueryTimeout |-> 0, RetryCount |-> 0,
     RetryDelay |-> 0, Morphology |-> <<>>, TokenFilter |-> <<>>,
     MaxPredictedTime |-> 0,
     OrderBy |-> <<>>, GroupBy |-> <<>>, GroupSort |-> <<>>,
     Highlight |-> NilPtr, Fuzzy |-> NilPtr, Where |-> <<>>, UseHTTP |-> FALSE]

\* strings.Join(elems, sep)
RECURSIVE Join(_, _)
Join(elems, sep) ==
    IF elems = <<>> THEN <<>>
    ELSE IF Len(elems) = 1 THEN Head(elems)
    ELSE Head(elems) \o sep \o Join(Tail(elems), sep)

\* the orders a range over a Go map with key set S may take
Orders(S) == {p \in [1..Cardinality(S) -> S] : Range(p) = S}

(***************************************************************************)
(* The text compiler: Handler.buildSQL and its helpers.                    *)
(***************************************************************************)
buildTableName(cluster, table) ==
    IF cluster # <<>> THEN cluster \o <<":">> \o table ELSE table

DoubleQuotes(s) == ReplaceAll(s, Quote, <<Quote, Quote>>)

buildHighlightFunction(highlight, query) ==
    IF ~highlight.Enabled THEN <<>>
    ELSE
      LET highlightOpts ==
              (IF highlight.Limit > 0
                 THEN << <<"limit=">> \o Itoa(highlight.Limit) >> ELSE <<>>)
              \o (IF highlight.LimitPerField > 0
                 THEN << <<"limit_per_field=">> \o Itoa(highlight.LimitPerField) >>
                 ELSE <<>>)
              \o (IF highlight.LimitWords > 0
                 THEN << <<"limit_words=">> \o Itoa(highlight.LimitWords) >> ELSE <<>>)
              \o (IF highlight.Around > 0
                 THEN << <<"around=">> \o Itoa(highlight.Around) >> ELSE <<>>)
              \o (IF highlight.StartTag # <<>>
                 THEN << <<"before_match=", Quote>> \o DoubleQuotes(highlight.StartTag)
                         \o <<Quote>> >>
                 ELSE <<>>)
              \o (IF highlight.EndTag # <<>>
                 THEN << <<"after_match=", Quote>> \o DoubleQuotes(highlight.EndTag)
                         \o <<Quote>> >>
                 ELSE <<>>)
          parts ==
              (IF Len(highlightOpts) > 0
                 THEN << <<"{">> \o Join(highlightOpts, <<", ">>) \o <<"}">> >>
                 ELSE <<>>)
              \o (IF Len(highlight.Fields) > 0
                 THEN << <<Quote>> \o Join(highlight.Fields, <<",">>) \o <<Quote>> >>
                 ELSE <<>>)
      IN  <<"HIGHLIGHT(">> \o Join(parts, <<", ">>) \o <<") AS highlight">>

selectClause(a) ==
    <<"SELECT ">>
    \o (IF Len(a.Fields) > 0 THEN Join(a.Fields, <<", ">>) ELSE <<"*">>)
    \o (IF a.Highlight # NilPtr /\ a.Highlight.Enabled
          THEN LET highlightFunc == buildHighlightFunction(a.Highlight, a.Query)
               IN  IF highlightFunc # <<>> THEN <<", ">> \o highlightFunc ELSE <<>>
          ELSE <<>>)

fromClause(a) == <<" FROM ">> \o buildTableName(a.Cluster, a.Table)

RECURSIVE whereConditions(_)
whereConditions(where) ==
    IF where = <<>> THEN <<>>
    ELSE <<" AND (">> \o Head(where) \o <<")">> \o whereConditions(Tail(where))

\* a plausible slip: only the first where expression is written
whereClauseFirstOnly(a) ==
    <<" WHERE MATCH(", Quote>> \o DoubleQuotes(a.Query) \o <<Quote, ")">>
    \o whereConditions(IF a.Where = <<>> THEN <<>> ELSE <<Head(a.Where)>>)

whereClause(a) ==
    <<" WHERE MATCH(", Quote>> \o DoubleQuotes(a.Query) \o <<Quote, ")">>
    \o whereConditions(a.Where)

\* a plausible slip: the order-by list is written whether or not the
\* statement groups
groupOrderClauseBoth(a) ==
    (IF Len(a.GroupBy) > 0
       THEN <<" GROUP BY ">> \o Join(a.GroupBy, <<", ">>)
            \o (IF a.GroupSort # <<>> THEN <<" ORDER BY ">> \o a.GroupSort ELSE <<>>)
       ELSE <<>>)
    \o (IF Len(a.OrderBy) > 0
       THEN <<" ORDER BY ">> \o Join(a.OrderBy, <<", ">>)
       ELSE <<>>)

groupOrderClause(a) ==
    (IF Len(a.GroupBy) > 0
       THEN <<" GROUP BY ">> \o Join(a.GroupBy, <<", ">>)
            \o (IF a.GroupSort # <<>> THEN <<" ORDER BY ">> \o a.GroupSort ELSE <<>>)
       ELSE <<>>)
    \o (IF Len(a.GroupBy) = 0 /\ Len(a.OrderBy) > 0
       THEN <<" ORDER BY ">> \o Join(a.OrderBy, <<", ">>)
       ELSE <<>>)

limitOffsetClauseFromZero(a) ==
    (IF a.Limit >= 0 THEN <<" LIMIT ">> \o Itoa(a.Limit) ELSE <<>>)
    \o (IF a.Offset > 0 THEN <<" OFFSET ">> \o Itoa(a.Offset) ELSE <<>>)

limitOffsetClause(a) ==
    (IF a.Limit > 0 THEN <<" LIMIT ">> \o Itoa(a.Limit) ELSE <<>>)
    \o (IF a.Offset > 0 THEN <<" OFFSET ">> \o Itoa(a.Offset) ELSE <<>>)

\* the option list: each option is one string
addBasicSQLOptions(a, order) ==
    (IF a.Ranker # <<>> THEN << <<"ranker=">> \o a.Ranker >> ELSE <<>>)
    \o (IF a.MaxMatches > 0 THEN << <<"max_matches=">> \o Itoa(a.MaxMatches) >> ELSE <<>>)
    \o (IF a.Cutoff > 0 THEN << <<"cutoff=">> \o Itoa(a.Cutoff) >> ELSE <<>>)
    \o (IF a.MaxQueryTime > 0
          THEN << <<"max_query_time=">> \o Itoa(a.MaxQueryTime) >> ELSE <<>>)
    \o (IF DOMAIN a.FieldWeights # {}
          THEN LET weights ==
                       [i \in DOMAIN order |->
                           <<order[i], "=">> \o Itoa(a.FieldWeights[order[i]])]
               IN  << <<"field_weights=(">> \o Join(weights, <<",">>) \o <<")">> >>
          ELSE <<>>)
    \o (IF a.Comment # <<>>
          THEN << <<"comment=", Quote>> \o DoubleQuotes(a.Comment) \o <<Quote>> >>
          ELSE <<>>)

addAdvancedSQLOptions(a) ==
    (IF a.NotTermsOnlyAllowed > 0
       THEN << <<"not_terms_only_allowed=">> \o Itoa(a.NotTermsOnlyAllowed) >>
       ELSE <<>>)
    \o (IF a.BooleanSimplify = 0 THEN << <<"boolean_simplify=0">> >> ELSE <<>>)
    \o (IF a.AccurateAggregation > 0
       THEN << <<"accurate_aggregation=">> \o Itoa(a.AccurateAggregation) >>
       ELSE <<>>)
    \o (IF a.RandSeed > 0 THEN << <<"rand_seed=">> \o Itoa(a.RandSeed) >> ELSE <<>>)
    \o (IF a.Morphology # <<>> THEN << <<"morphology=">> \o a.Morphology >> ELSE <<>>)
    \o (IF a.TokenFilter # <<>>
       THEN << <<"token_filter=", Quote>> \o DoubleQuotes(a.TokenFilter) \o <<Quote>> >>
       ELSE <<>>)
    \o (IF a.MaxPredictedTime > 0
       THEN << <<"max_predicted_time=">> \o Itoa(a.MaxPredictedTime) >>
       ELSE <<>>)

addAgentSQLOptions(a) ==
    (IF a.AgentQueryTimeout > 0
       THEN << <<"agent_query_timeout=">> \o Itoa(a.AgentQueryTimeout) >>
       ELSE <<>>)
    \o (IF a.RetryCount > 0 THEN << <<"retry_count=">> \o Itoa(a.RetryCount) >> ELSE <<>>)
    \o (IF a.RetryDelay > 0 THEN << <<"retry_delay=">> \o Itoa(a.RetryDelay) >> ELSE <<>>)

addFuzzySQLOptions(a) ==
    IF a.Fuzzy # NilPtr /\ a.Fuzzy.Enabled
    THEN << <<"fuzzy=1">> >>
         \o (IF a.Fuzzy.Distance > 0
               THEN << <<"distance=">> \o Itoa(a.Fuzzy.Distance) >> ELSE <<>>)
         \o (IF a.Fuzzy.Preserve > 0
               THEN << <<"preserve=">> \o Itoa(a.Fuzzy.Preserve) >> ELSE <<>>)
         \o (IF Len(a.Fuzzy.Layouts) > 0
               THEN << <<"layouts=", Quote>> \o Join(a.Fuzzy.Layouts, <<",">>)
                       \o <<Quote>> >>
               ELSE <<>>)
    ELSE <<>>

buildOptions(a, order) ==
    Join(addBasicSQLOptions(a, order) \o addAdvancedSQLOptions(a)
         \o addAgentSQLOptions(a) \o addFuzzySQLOptions(a),
         <<", ">>)

optionClause(a, order) ==
    LET options == buildOptions(a, order)
    IN  IF options # <<>> THEN <<" OPTION ">> \o options ELSE <<>>

\* order: the order in which the range over args.FieldWeights yields its keys
buildSQL(a, order) ==
    selectClause(a) \o fromClause(a) \o whereClause(a) \o groupOrderClause(a)
    \o limitOffsetClause(a) \o optionClause(a, order)

(***************************************************************************)
(* The clause model and the boolean clause compiler of the QueryBuilder.   *)
(* A QueryClause is [Type, Data]; Data is a Go value tagged with its       *)
(* dynamic type (kind), which is what the type assertions of the compiler  *)
(* look at.  A compile result is [doc, err]; err is NoErr or the error's   *)
(* message, and doc is Nil whenever err is set.  A JSON document is a      *)
(* function from keys to values; the clause arrays of a bool document keep *)
(* their Go slice type.                                                    *)
(***************************************************************************)
NoErr == <<>>
Nil == NilPtr
EmptyMap == [k \in {} |-> Nil]

ErrInvalidMatchClauseData == <<"invalid ", "match", " clause data">>
ErrInvalidRangeClauseData == <<"invalid ", "range", " clause data">>
ErrInvalidEqualsClauseData == <<"invalid ", "equals", " clause data">>
ErrInvalidInClauseData == <<"invalid ", "in", " clause data">>
ErrInvalidGeoDistanceClauseData == <<"invalid ", "geo_distance", " clause data">>
ErrInvalidQueryStringClauseData == <<"invalid ", "query_string", " clause data">>
ErrInvalidBoolClauseData == <<"invalid ", "bool", " clause data">>
ErrUnsupportedClauseType == <<"unsupported query clause type">>

Ok(doc) == [doc |-> doc, err |-> NoErr]
Fail(err) == [doc |-> Nil, err |-> err]

ClauseSlice(elems) == [gotype |-> "[]map[string]interface{}", elems |-> elems]

buildMatchClause(match) ==
    IF match.Operator # ""
    THEN [match |-> (match.Field :> [query |-> match.Query, operator |-> match.Operator])]
    ELSE [match |-> (match.Field :> match.Query)]

buildRangeClause(rangeClause) == [range |-> (rangeClause.Field :> rangeClause.Ranges)]

buildEqualsClause(equals) == [equals |-> (equals.Field :> equals.Value)]

buildInClause(in) == [in |-> (in.Field :> in.Values)]

buildGeoDistanceClause(geo) ==
    [geo_distance |-> [distance_type |-> geo.DistanceType,
                       location_anchor |-> geo.LocationAnchor,
                       location_source |-> geo.LocationSource,
                       distance |-> geo.Distance]]

buildQueryStringClause(qs) == [query_string |-> qs.Query]

buildMatchAllClause == Ok([match_all |-> EmptyMap])

\* a plausible slip: the payload's type is not checked
buildMatchClauseFromDataUnchecked(data) ==
    IF data.kind = "MatchClause" THEN Ok(buildMatchClause(data))
    ELSE Ok([match |-> EmptyMap])

buildMatchClauseFromData(data) ==
    IF data.kind # "MatchClause" THEN Fail(ErrInvalidMatchClauseData)
    ELSE Ok(buildMatchClause(data))

buildRangeClauseFromData(data) ==
    IF data.kind # "RangeClause" THEN Fail(ErrInvalidRangeClauseData)
    ELSE Ok(buildRangeClause(data))

buildEqualsClauseFromData(data) ==
    IF data.kind # "EqualsClause" THEN Fail(ErrInvalidEqualsClauseData)
    ELSE Ok(buildEqualsClause(data))

buildInClauseFromData(data) ==
    IF data.kind # "InClause" THEN Fail(ErrInvalidInClauseData)
    ELSE Ok(buildInClause(data))

buildGeoDistanceClauseFromData(data) ==
    IF data.kind # "GeoDistanceClause" THEN Fail(ErrInvalidGeoDistanceClauseData)
    ELSE Ok(buildGeoDistanceClause(data))

buildQueryStringClauseFromData(data) ==
    IF data.kind # "QueryStringClause" THEN Fail(ErrInvalidQueryStringClauseData)
    ELSE Ok(buildQueryStringClause(data))

\* a plausible slip: a clause of an unknown type is skipped, not refused
unsupportedClauseSkipped(clause) == Ok(Nil)

unsupportedClause(clause) == Fail(ErrUnsupportedClauseType \o <<": ", clause.Type>>)

\* a plausible slip: the should key is written even for an empty list
boolKeysAlwaysShould(boolQuery) ==
    {k \in {"must", "must_not"} :
        Len(IF k = "must" THEN boolQuery.Must ELSE boolQuery.MustNot) > 0}
    \cup {"should"}

\* the keys buildBoolQuery writes
boolKeys(boolQuery) ==
    (IF Len(boolQuery.Must) > 0 THEN {"must"} ELSE {})
    \cup (IF Len(boolQuery.Should) > 0 THEN {"should"} ELSE {})
    \cup (IF Len(boolQuery.MustNot) > 0 THEN {"must_not"} ELSE {})

RECURSIVE buildBoolQuery(_)
RECURSIVE buildClauseSeq(_)
RECURSIVE buildSingleClause(_)
RECURSIVE buildBoolClauseFromData(_)

buildBoolQuery(boolQuery) ==
    LET keys == boolKeys(boolQuery)
        must == IF "must" \in keys THEN buildClauseSeq(boolQuery.Must) ELSE Ok(<<>>)
        should == IF "should" \in keys THEN buildClauseSeq(boolQuery.Should) ELSE Ok(<<>>)
        mustNot == IF "must_not" \in keys THEN buildClauseSeq(boolQuery.MustNot)
                   ELSE Ok(<<>>)
    IN  IF must.err # NoErr THEN Fail(must.err)
        ELSE IF should.err # NoErr THEN Fail(should.err)
        ELSE IF mustNot.err # NoErr THEN Fail(mustNot.err)
        ELSE Ok([bool |->
                  [k \in keys |->
                      ClauseSlice(CASE k = "must" -> must.doc
                                    [] k = "should" -> should.doc
                                    [] k = "must_not" -> mustNot.doc)]])

\* the loop of buildQueryClauses: it stops at the first clause that fails
buildClauseSeq(clauses) ==
    IF clauses = <<>> THEN Ok(<<>>)
    ELSE LET clauseData == buildSingleClause(Head(clauses))
         IN  IF clauseData.err # NoErr THEN Fail(clauseData.err)
             ELSE LET rest == buildClauseSeq(Tail(clauses))
                  IN  IF rest.err # NoErr THEN Fail(rest.err)
                      ELSE Ok(<<clauseData.doc>> \o rest.doc)

buildQueryClauses(clauses) ==
    LET r == buildClauseSeq(clauses)
    IN  IF r.err # NoErr THEN r ELSE Ok(ClauseSlice(r.doc))

buildSingleClause(clause) ==
    CASE clause.Type = "match" -> buildMatchClauseFromData(clause.Data)
      [] clause.Type = "range" -> buildRangeClauseFromData(clause.Data)
      [] clause.Type = "equals" -> buildEqualsClauseFromData(clause.Data)
      [] clause.Type = "in" -> buildInClauseFromData(clause.Data)
      [] clause.Type = "geo_distance" -> buildGeoDistanceClauseFromData(clause.Data)
      [] clause.Type = "query_string" -> buildQueryStringClauseFromData(clause.Data)
      [] clause.Type = "match_all" -> buildMatchAllClause
      [] clause.Type = "bool" -> buildBoolClauseFromData(clause.Data)
      [] OTHER -> unsupportedClause(clause)

buildBoolClauseFromData(data) ==
    IF data.kind # "BoolQuery" THEN Fail(ErrInvalidBoolClauseData)
    ELSE buildBoolQuery(data)

\* the constructors of well-typed clauses
NewMatchClause(field, query, operator) ==
    [Type |-> "match",
     Data |-> [kind |-> "MatchClause", Field |-> field, Query |-> query,
               Operator |-> operator]]

NewRangeClause(field, ranges) ==
    [Type |-> "range", Data |-> [kind |-> "RangeClause", Field |-> field, Ranges |-> ranges]]

NewEqualsClause(field, v) ==
    [Type |-> "equals", Data |-> [kind |-> "EqualsClause", Field |-> field, Value |-> v]]

NewInClause(field, values) ==
    [Type |-> "in", Data |-> [kind |-> "InClause", Field |-> field, Values |-> values]]

NewGeoDistanceClause(distanceType, anchor, source, distance) ==
    [Type |-> "geo_distance",
     Data |-> [kind |-> "GeoDistanceClause", DistanceType |-> distanceType,
               LocationAnchor |-> anchor, LocationSource |-> source,
               Distance |-> distance]]

NewQueryStringClause(query) ==
    [Type |-> "query_string", Data |-> [kind |-> "QueryStringClause", Query |-> query]]

NewMatchAllClause == [Type |-> "match_all", Data |-> [kind |-> "MatchAllClause"]]

NewBoolClause(boolQuery) == [Type |-> "bool", Data |-> boolQuery]

NewBoolQuery(must, should, mustNot) ==
    [kind |-> "BoolQuery", Must |-> must, Should |-> should, MustNot |-> mustNot]

(***************************************************************************)
(* The JSON compiler: QueryBuilder.BuildHTTPQuery and its helpers.         *)
(***************************************************************************)
NewQueryBuilder(cluster, table) == [cluster |-> cluster, table |-> table]

\* a plausible slip: the cluster qualifier is left out
qbBuildTableNameBare(qb) == qb.table

qbBuildTableName(qb) ==
    IF qb.cluster # <<>> THEN qb.cluster \o <<":">> \o qb.table ELSE qb.table

\* a key that is written only under a condition
Opt(key, cond, v) == IF cond THEN (key :> v) ELSE EmptyMap

\* strings.Fields: the maximal runs of pieces that are not white space
RECURSIVE FieldsFrom(_, _)
FieldsFrom(s, cur) ==
    IF s = <<>> THEN (IF cur = <<>> THEN <<>> ELSE <<cur>>)
    ELSE IF Head(s) = " "
         THEN (IF cur = <<>> THEN <<>> ELSE <<cur>>) \o FieldsFrom(Tail(s), <<>>)
    ELSE FieldsFrom(Tail(s), Append(cur, Head(s)))

StringFields(s) == FieldsFrom(s, <<>>)

\* strings.ToLower, on the pieces order-by expressions are made of
LowerPiece(p) ==
    CASE p = "DESC" -> "desc"
      [] p = "Desc" -> "desc"
      [] p = "ASC" -> "asc"
      [] OTHER -> p

ToLower(s) == [i \in DOMAIN s |-> LowerPiece(s[i])]

sortEntry(orderExpr) ==
    LET parts == StringFields(orderExpr)
    IN  IF Len(parts) >= 2
        THEN (parts[1] :> ToLower(parts[2]))
        ELSE (orderExpr :> <<"asc">>)

buildHighlightOptions(highlight) ==
    Opt("fields", Len(highlight.Fields) > 0, highlight.Fields)
    @@ Opt("limit", highlight.Limit > 0, highlight.Limit)
    @@ Opt("limit_per_field", highlight.LimitPerField > 0, highlight.LimitPerField)
    @@ Opt("limit_words", highlight.LimitWords > 0, highlight.LimitWords)
    @@ Opt("around", highlight.Around > 0, highlight.Around)
    @@ Opt("before_match", highlight.StartTag # <<>>, highlight.StartTag)
    @@ Opt("after_match", highlight.EndTag # <<>>, highlight.EndTag)
    @@ Opt("number_of_fragments", highlight.NumberFragments > 0,
           highlight.NumberFragments)

addBasicOptions(a) ==
    Opt("ranker", a.Ranker # <<>>, a.Ranker)
    @@ Opt("max_matches", a.MaxMatches > 0, a.MaxMatches)
    @@ Opt("cutoff", a.Cutoff > 0, a.Cutoff)
    @@ Opt("max_query_time", a.MaxQueryTime > 0, a.MaxQueryTime)
    @@ Opt("field_weights", DOMAIN a.FieldWeights # {}, a.FieldWeights)
    @@ Opt("comment", a.Comment # <<>>, a.Comment)

addAdvancedOptionsUnlessDefault(a) ==
    Opt("not_terms_only_allowed", a.NotTermsOnlyAllowed > 0, a.NotTermsOnlyAllowed)
    @@ Opt("boolean_simplify", a.BooleanSimplify # 1, a.BooleanSimplify)
    @@ Opt("accurate_aggregation", a.AccurateAggregation > 0, a.AccurateAggregation)
    @@ Opt("rand_seed", a.RandSeed > 0, a.RandSeed)
    @@ Opt("morphology", a.Morphology # <<>>, a.Morphology)
    @@ Opt("token_filter", a.TokenFilter # <<>>, a.TokenFilter)
    @@ Opt("max_predicted_time", a.MaxPredictedTime > 0, a.MaxPredictedTime)

addAdvancedOptions(a) ==
    Opt("not_terms_only_allowed", a.NotTermsOnlyAllowed > 0, a.NotTermsOnlyAllowed)
    @@ Opt("boolean_simplify", a.BooleanSimplify = 0, 0)
    @@ Opt("accurate_aggregation", a.AccurateAggregation > 0, a.AccurateAggregation)
    @@ Opt("rand_seed", a.RandSeed > 0, a.RandSeed)
    @@ Opt("morphology", a.Morphology # <<>>, a.Morphology)
    @@ Opt("token_filter", a.TokenFilter # <<>>, a.TokenFilter)
    @@ Opt("max_predicted_time", a.MaxPredictedTime > 0, a.MaxPredictedTime)

addAgentOptions(a) ==
    Opt("agent_query_timeout", a.AgentQueryTimeout > 0, a.AgentQueryTimeout)
    @@ Opt("retry_count", a.RetryCount > 0, a.RetryCount)
    @@ Opt("retry_delay", a.RetryDelay > 0, a.RetryDelay)

buildHTTPOptions(a) == addBasicOptions(a) @@ addAdvancedOptions(a) @@ addAgentOptions(a)

mainQueryTextFirst(a) ==
    IF a.Query # <<>> THEN Ok([match |-> ("*" :> a.Query)])
    ELSE IF a.BoolQuery # NilPtr THEN buildBoolQuery(a.BoolQuery)
    ELSE Ok([match_all |-> EmptyMap])

\* the main query of the document
mainQuery(a) ==
    IF a.BoolQuery # NilPtr THEN buildBoolQuery(a.BoolQuery)
    ELSE IF a.Query # <<>> THEN Ok([match |-> ("*" :> a.Query)])
    ELSE Ok([match_all |-> EmptyMap])

BuildHTTPQuery(qb, a) ==
    LET main == mainQuery(a)
        options == buildHTTPOptions(a)
    IN  IF main.err # NoErr THEN Fail(main.err)
        ELSE Ok(("table" :> qbBuildTableName(qb))
                @@ ("query" :> main.doc)
                @@ Opt("limit", a.Limit > 0, a.Limit)
                @@ Opt("offset", a.Offset > 0, a.Offset)
                @@ Opt("_source", Len(a.Fields) > 0, a.Fields)
                @@ Opt("sort", Len(a.OrderBy) > 0,
                       [i \in DOMAIN a.OrderBy |-> sortEntry(a.OrderBy[i])])
                @@ Opt("highlight", a.Highlight # NilPtr /\ a.Highlight.Enabled,
                       IF a.Highlight # NilPtr THEN buildHighlightOptions(a.Highlight)
                       ELSE EmptyMap)
                @@ Opt("options", DOMAIN options # {}, options))

(***************************************************************************)
(* The value escaper of the documents handler.  A value is a record tagged *)
(* with its Go dynamic type; a value of any other type carries the text    *)
(* fmt.Sprintf("%v") gives for it.  A float64 holds a whole number, which  *)
(* %g prints as the integer.                                               *)
(***************************************************************************)
Values ==
    {[kind |-> "string", s |-> s] : s \in Texts}
    \cup {[kind |-> "int", n |-> n] : n \in {-12, -1, 0, 7, 42, 105}}
    \cup {[kind |-> "bool", b |-> b] : b \in BOOLEAN}
    \cup {[kind |-> "nil"]}
    \cup {[kind |-> "other", s |-> s] : s \in StringsUpTo(Alphabet, 2)}

\* a plausible slip: quotes escaped before backslashes
formatValueQuoteFirst(v) ==
    CASE v.kind = "string" ->
            LET escapedValue ==
                    ReplaceAll(ReplaceAll(v.s, Quote, <<Backslash, Quote>>),
                               Backslash, <<Backslash, Backslash>>)
            IN  <<Quote>> \o escapedValue \o <<Quote>>
      [] v.kind = "int" -> Itoa(v.n)
      [] v.kind = "float64" -> Itoa(v.n)
      [] v.kind = "bool" -> IF v.b THEN <<"1">> ELSE <<"0">>
      [] v.kind = "nil" -> <<"NULL">>
      [] OTHER -> <<Quote>> \o ReplaceAll(v.s, Quote, <<Quote, Quote>>) \o <<Quote>>

formatValue(v) ==
    CASE v.kind = "string" ->
            LET escapedValue ==
                    ReplaceAll(ReplaceAll(v.s, Backslash, <<Backslash, Backslash>>),
                               Quote, <<Backslash, Quote>>)
            IN  <<Quote>> \o escapedValue \o <<Quote>>
      [] v.kind = "int" -> Itoa(v.n)
      [] v.kind = "float64" -> Itoa(v.n)
      [] v.kind = "bool" -> IF v.b THEN <<"1">> ELSE <<"0">>
      [] v.kind = "nil" -> <<"NULL">>
      [] OTHER -> <<Quote>> \o ReplaceAll(v.s, Quote, <<Quote, Quote>>) \o <<Quote>>

NoValue == [kind |-> "none"]

ValueIdle == value = NoValue /\ literal = <<>>

SqlIdle == args = ZeroArgs /\ sql = <<>>

HttpIdle == httpQuery = Nil /\ httpErr = NoErr

NoWire == [kind |-> "none"]
NoResponse == [kind |-> "none"]

NoConfig == [kind |-> "none"]
NoRequest == [kind |-> "none"]
NoContext == [kind |-> "none"]
NoReturn == [kind |-> "none"]

ClientIdle ==
    /\ cfg = NoConfig
    /\ req = NoRequest
    /\ ctx = NoContext
    /\ attempt = 0
    /\ sel = "none"
    /\ lastErr = NoErr
    /\ events = <<>>
    /\ ret = NoReturn

ExecIdle ==
    /\ wire = NoWire
    /\ compiled = <<>>
    /\ sent = <<>>
    /\ rows = Nil
    /\ execErr = NoErr
    /\ response = NoResponse

InitValue ==
    /\ pc = "formatValue"
    /\ value \in Values
    /\ literal = <<>>
    /\ SqlIdle
    /\ HttpIdle
    /\ ExecIdle
    /\ ClientIdle

FormatValue ==
    /\ pc = "formatValue"
    /\ literal' = formatValue(value)
    /\ pc' = "done"
    /\ UNCHANGED <<value, sqlVars, httpVars, execVars, clientVars>>

NextValue == FormatValue

SpecValue == InitValue /\ [][NextValue]_vars

(***************************************************************************)
(* The reader of a string literal of the backend's query language: after   *)
(* the opening quote, a backslash takes the next character as it is, and   *)
(* the first quote that no backslash precedes closes the literal.          *)
(***************************************************************************)
RECURSIVE ReadLiteral(_, _)
ReadLiteral(s, acc) ==
    IF s = <<>> THEN [closed |-> FALSE, text |-> acc, rest |-> <<>>]
    ELSE IF Head(s) = Backslash
         THEN IF Len(s) >= 2
              THEN ReadLiteral(Tail(Tail(s)), Append(acc, s[2]))
              ELSE [closed |-> FALSE, text |-> acc, rest |-> <<>>]
    ELSE IF Head(s) = Quote
         THEN [closed |-> TRUE, text |-> acc, rest |-> Tail(s)]
    ELSE ReadLiteral(Tail(s), Append(acc, Head(s)))

\* each character escaped on its own: \ becomes \\, ' becomes \'
RECURSIVE EscapeEach(_)
EscapeEach(s) ==
    IF s = <<>> THEN <<>>
    ELSE (CASE Head(s) = Backslash -> <<Backslash, Backslash>>
            [] Head(s) = Quote -> <<Backslash, Quote>>
            [] OTHER -> <<Head(s)>>)
         \o EscapeEach(Tail(s))

\* C5: the literal formatValue returns for a string is the string with every
\* backslash doubled and every single quote preceded by a backslash, between
\* two single quotes; read back, it gives the string, and the only quote that
\* closes it is its last character.
C5_FormatValueRoundTrip ==
    (pc = "done" /\ value.kind = "string") =>
        /\ literal = <<Quote>> \o EscapeEach(value.s) \o <<Quote>>
        /\ Head(literal) = Quote
        /\ LET r == ReadLiteral(Tail(literal), <<>>)
           IN  r.closed /\ r.text = value.s /\ r.rest = <<>>

\* a string with a quote and a backslash has been escaped
C5_Witness ==
    /\ pc = "done"
    /\ value.kind = "string"
    /\ Quote \in Range(value.s)
    /\ Backslash \in Range(value.s)
    /\ Len(literal) = Len(value.s) + 2 + Cardinality({i \in DOMAIN value.s : value.s[i] \in {Quote, Backslash}})

(***************************************************************************)
(* The text compiler applied to bounded search specs.  The specs vary the  *)
(* query text and the where list, the shape of the statement (cluster,     *)
(* projection, grouping, ordering, paging) and the options, one group at a *)
(* time around a base spec.                                                *)
(***************************************************************************)
WhereExprs == {<<"price>10">>, <<"category=", Quote, "a", Quote>>}

WhereLists == StringsUpTo(WhereExprs, MaxWhere)

ZeroHighlight ==
    [kind |-> "HighlightOptions", Enabled |-> FALSE, Fields |-> <<>>, Limit |-> 0,
     LimitPerField |-> 0, LimitWords |-> 0, Around |-> 0, StartTag |-> <<>>,
     EndTag |-> <<>>, NumberFragments |-> 0]

ZeroFuzzy ==
    [kind |-> "FuzzyOptions", Enabled |-> FALSE, Distance |-> 0, Preserve |-> 0,
     Layouts |-> <<>>]

Highlights ==
    {NilPtr, ZeroHighlight,
     [ZeroHighlight EXCEPT !.Enabled = TRUE],
     [ZeroHighlight EXCEPT !.Enabled = TRUE, !.Fields = << <<"title">>, <<"content">> >>,
                           !.Limit = 3, !.StartTag = <<"<b>">>, !.EndTag = <<"</b>">>],
     [ZeroHighlight EXCEPT !.Enabled = TRUE, !.Around = 5, !.NumberFragments = 2,
                           !.StartTag = <<Quote>>]}

Fuzzies ==
    {NilPtr, ZeroFuzzy,
     [ZeroFuzzy EXCEPT !.Enabled = TRUE],
     [ZeroFuzzy EXCEPT !.Enabled = TRUE, !.Distance = 2, !.Preserve = 1,
                       !.Layouts = << <<"us">>, <<"ru">> >>]}

WeightMaps ==
    {NoWeights, ("title" :> 2), ("title" :> 2 @@ "content" :> 1)}

BaseArgs == [ZeroArgs EXCEPT !.Table = <<"docs">>, !.Query = <<"a">>,
                             !.BooleanSimplify = 1]

TextArgs ==
    {[BaseArgs EXCEPT !.Query = q, !.Where = w] : q \in Texts, w \in WhereLists}

ShapeArgs ==
    {[BaseArgs EXCEPT !.Cluster = c, !.Fields = f, !.GroupBy = g, !.GroupSort = gs,
                      !.OrderBy = o, !.Limit = l, !.Offset = off] :
        c \in {<<>>, <<"c1">>},
        f \in {<<>>, << <<"title">>, <<"id">> >>},
        g \in {<<>>, << <<"category">> >>},
        gs \in {<<>>, <<"price", " ", "DESC">>},
        o \in {<<>>, << <<"price", " ", "DESC">> >>,
               << <<"title">>, <<"id", " ", "asc">> >>,
               << <<"title", " ">> >>},
        l \in {-1, 0, 10},
        off \in {0, 5}}

OptionArgs ==
    {[BaseArgs EXCEPT !.Ranker = r, !.MaxMatches = m, !.FieldWeights = fw,
                      !.Comment = c, !.BooleanSimplify = bs, !.Fuzzy = fz,
                      !.Highlight = h] :
        r \in {<<>>, <<"bm25">>}, m \in {0, 1000}, fw \in WeightMaps,
        c \in {<<>>, <<"it", Quote, "s">>}, bs \in {0, 1, 2},
        fz \in Fuzzies, h \in Highlights}
    \cup {[BaseArgs EXCEPT !.Cutoff = n, !.MaxQueryTime = n] : n \in {0, 50}}
    \cup {[BaseArgs EXCEPT !.NotTermsOnlyAllowed = n, !.AccurateAggregation = n,
                           !.RandSeed = n] : n \in {0, 1}}
    \cup {[BaseArgs EXCEPT !.Morphology = s, !.TokenFilter = f,
                           !.MaxPredictedTime = n] :
             s \in {<<>>, <<"none">>}, f \in {<<>>, <<"lib:plugin">>}, n \in {0, 9}}
    \cup {[BaseArgs EXCEPT !.AgentQueryTimeout = n, !.RetryCount = k,
                           !.RetryDelay = d] :
             n \in {0, 500}, k \in {0, 3}, d \in {0, 20}}

SqlArgs == TextArgs \cup ShapeArgs \cup OptionArgs

InitSql ==
    /\ pc = "buildSQL"
    /\ args \in SqlArgs
    /\ sql = <<>>
    /\ ValueIdle
    /\ HttpIdle
    /\ ExecIdle
    /\ ClientIdle

BuildSQL ==
    /\ pc = "buildSQL"
    /\ \E order \in Orders(DOMAIN args.FieldWeights) :
          sql' = buildSQL(args, order)
    /\ pc' = "done"
    /\ UNCHANGED <<args, valueVars, httpVars, execVars, clientVars>>

NextSql == BuildSQL

SpecSql == InitSql /\ [][NextSql]_vars

\* the place of the full-text predicate in a statement
MatchAt(s) == CHOOSE i \in DOMAIN s : s[i] = " WHERE MATCH("

AfterMatchOpen(s) == SubSeq(s, MatchAt(s) + 2, Len(s))

\* C3: for a query holding a quote or a backslash, the literal buildSQL writes
\* for the query text is the query with backslashes doubled and quotes
\* preceded by a backslash; read back it gives the query, and no quote of the
\* query closes it (it closes at the quote the compiler wrote last, right
\* before the closing parenthesis).
C3_QueryLiteralSafe ==
    (pc = "done" /\ Range(args.Query) \cap {Quote, Backslash} # {}) =>
        LET r == ReadLiteral(AfterMatchOpen(sql), <<>>)
        IN  /\ sql[MatchAt(sql) + 1] = Quote
            /\ r.closed
            /\ r.text = args.Query
            /\ r.rest # <<>> /\ Head(r.rest) = ")"
            /\ SubSeq(sql, MatchAt(sql) + 1,
                      MatchAt(sql) + Len(EscapeEach(args.Query)) + 2)
                 = <<Quote>> \o EscapeEach(args.Query) \o <<Quote>>

\* a literal read with a quote written twice standing for one quote
RECURSIVE ReadDoubled(_, _)
ReadDoubled(s, acc) ==
    IF s = <<>> THEN [closed |-> FALSE, text |-> acc, rest |-> <<>>]
    ELSE IF Head(s) = Quote
         THEN IF Len(s) >= 2 /\ s[2] = Quote
              THEN ReadDoubled(Tail(Tail(s)), Append(acc, Quote))
              ELSE [closed |-> TRUE, text |-> acc, rest |-> Tail(s)]
    ELSE ReadDoubled(Tail(s), Append(acc, Head(s)))

\* the filters of a statement tail: every " AND (" piece opens one, which runs
\* to the next ")" piece
RECURSIVE FiltersOf(_)
FiltersOf(s) ==
    IF s = <<>> THEN <<>>
    ELSE IF Head(s) = " AND ("
         THEN LET close == CHOOSE k \in 2..Len(s) :
                               s[k] = ")" /\ \A j \in 2..(k - 1) : s[j] # ")"
              IN  << SubSeq(s, 2, close - 1) >> \o FiltersOf(SubSeq(s, close + 1, Len(s)))
    ELSE FiltersOf(Tail(s))

\* C4: for a spec with a table and a query text, the statement holds exactly
\* one MATCH predicate, whose argument is the quoted query text with its
\* quotes doubled, followed at once by the where expressions, each in
\* parentheses after AND, in the order given and as many as the where list has.
C4_OneMatchThenFilters ==
    (pc = "done" /\ args.Table # <<>> /\ args.Query # <<>>) =>
        /\ Cardinality({i \in DOMAIN sql : sql[i] = " WHERE MATCH("}) = 1
        /\ sql[MatchAt(sql) + 1] = Quote
        /\ LET r == ReadDoubled(AfterMatchOpen(sql), <<>>)
           IN  /\ r.closed
               /\ r.text = args.Query
               /\ r.rest # <<>> /\ Head(r.rest) = ")"
               /\ FiltersOf(r.rest) = args.Where
               /\ Len(args.Where) > 0 => r.rest[2] = " AND ("
        /\ Cardinality({i \in DOMAIN sql : sql[i] = " AND ("}) = Len(args.Where)

\* a statement for a query with a quote and two where expressions
C4_Witness ==
    /\ pc = "done"
    /\ Quote \in Range(args.Query)
    /\ Len(args.Where) = 2
    /\ args.Where[1] # args.Where[2]
    /\ Cardinality({i \in DOMAIN sql : sql[i] = " AND ("}) = 2

(***************************************************************************)
(* The JSON compiler applied to bounded search specs.  A bool query of the *)
(* domain has one list (its spine, under must, should or must_not) that    *)
(* holds one clause of interest at any index among well-formed ones; the   *)
(* clause of interest is a single clause, well-formed or not, or a bool    *)
(* clause that nests another such query, down to MaxDepth.                 *)
(***************************************************************************)
GoodMatch == NewMatchClause("title", "test", "")
GoodQueryString == NewQueryStringClause("@title test")

StringData == [kind |-> "string", s |-> "invalid_data"]
NilData == [kind |-> "nil"]
\* the shape a clause payload has when it comes off the wire
WireMatchData ==
    [kind |-> "map[string]interface{}", m |-> [field |-> "content", query |-> "important"]]

PayloadTags ==
    {"match", "range", "equals", "in", "geo_distance", "query_string", "bool"}
KnownTags == PayloadTags \cup {"match_all"}

\* the Go type whose values are the payloads of a tag
ShapeOf(tag) ==
    CASE tag = "match" -> "MatchClause"
      [] tag = "range" -> "RangeClause"
      [] tag = "equals" -> "EqualsClause"
      [] tag = "in" -> "InClause"
      [] tag = "geo_distance" -> "GeoDistanceClause"
      [] tag = "query_string" -> "QueryStringClause"
      [] tag = "match_all" -> "MatchAllClause"
      [] tag = "bool" -> "BoolQuery"

GoodLeaves ==
    {GoodMatch, NewMatchClause("title", "test", "and"),
     NewRangeClause("price", ("gte" :> 10 @@ "lte" :> 100)),
     NewEqualsClause("category", 5),
     NewInClause("id", <<1, 2, 3>>),
     NewGeoDistanceClause("adaptive", ("lat" :> 52 @@ "lon" :> 13), "lat, lon", "100 km"),
     GoodQueryString, NewMatchAllClause}

MalformedLeaves ==
    {[Type |-> tag, Data |-> StringData] : tag \in PayloadTags}
    \cup {[Type |-> "match", Data |-> WireMatchData],
          [Type |-> "match", Data |-> [kind |-> "EqualsClause", Field |-> "category",
                                       Value |-> 5]],
          [Type |-> "bool", Data |-> NilData]}

UnknownLeaves ==
    {[Type |-> "invalid_type", Data |-> StringData], [Type |-> "", Data |-> NilData]}

\* match_all clauses that carry a payload of another type
MatchAllWithPayload ==
    {[Type |-> "match_all", Data |-> StringData], [Type |-> "match_all", Data |-> NilData]}

Leaves == GoodLeaves \cup MalformedLeaves \cup UnknownLeaves \cup MatchAllWithPayload

InnerLeaves ==
    {NewEqualsClause("category", 5),
     [Type |-> "range", Data |-> NilData],
     [Type |-> "invalid_type", Data |-> StringData],
     [Type |-> "match_all", Data |-> StringData]}

\* n well-formed clauses, of alternating types
Padding(n) == [i \in 1..n |-> IF i % 2 = 1 THEN GoodMatch ELSE GoodQueryString]

\* clause x at index p + 1, with p well-formed clauses before it and q after it
Around(x, p, q) ==
    [i \in 1..(p + q + 1) |->
        IF i = p + 1 THEN x ELSE IF i % 2 = 1 THEN GoodQueryString ELSE GoodMatch]

\* the places (p before, q after) a clause may take in a list
Placements ==
    {pq \in (0..(MaxClauses - 1)) \X (0..(MaxClauses - 1)) :
        pq[1] + pq[2] + 1 <= MaxClauses}

ListsWith(X) ==
    {Padding(n) : n \in 0..MaxClauses}
    \cup {Around(x, pq[1], pq[2]) : x \in X, pq \in Placements}

Roles == {"must", "should", "must_not"}

Place(role, spine, o1, o2) ==
    CASE role = "must" -> NewBoolQuery(spine, o1, o2)
      [] role = "should" -> NewBoolQuery(o2, spine, o1)
      [] role = "must_not" -> NewBoolQuery(o1, o2, spine)

RECURSIVE InnerTrees(_)
InnerTrees(d) ==
    LET X == InnerLeaves
             \cup (IF d = 0 THEN {} ELSE {NewBoolClause(b) : b \in InnerTrees(d - 1)})
    IN  {Place(role, l, <<>>, <<>>) : role \in Roles, l \in ListsWith(X)}

OtherLists == {<< <<>>, <<>> >>, << <<>>, <<GoodMatch>> >>}

BoolQueries ==
    LET X == Leaves
             \cup (IF MaxDepth = 0 THEN {}
                   ELSE {NewBoolClause(b) : b \in InnerTrees(MaxDepth - 1)})
    IN  {Place(role, l, o[1], o[2]) : role \in Roles, l \in ListsWith(X), o \in OtherLists}

BoolArgs == {[BaseArgs EXCEPT !.BoolQuery = b] : b \in BoolQueries}

HttpArgs ==
    BoolArgs \cup ShapeArgs \cup OptionArgs
    \cup {[BaseArgs EXCEPT !.Query = q] : q \in StringsUpTo(Alphabet, 1)}

InitHttp ==
    /\ pc = "BuildHTTPQuery"
    /\ args \in HttpArgs
    /\ sql = <<>>
    /\ ValueIdle
    /\ HttpIdle
    /\ ExecIdle
    /\ ClientIdle

CallBuildHTTPQuery ==
    /\ pc = "BuildHTTPQuery"
    /\ LET r == BuildHTTPQuery(NewQueryBuilder(args.Cluster, args.Table), args)
       IN  httpQuery' = r.doc /\ httpErr' = r.err
    /\ pc' = "done"
    /\ UNCHANGED <<args, sql, valueVars, execVars, clientVars>>

NextHttp == CallBuildHTTPQuery

SpecHttp == InitHttp /\ [][NextHttp]_vars

\* every clause of a bool query, at any depth
RECURSIVE ClausesOf(_)
RECURSIVE ClausesOfList(_)
ClausesOf(b) == ClausesOfList(b.Must) \cup ClausesOfList(b.Should) \cup ClausesOfList(b.MustNot)

ClausesOfList(l) ==
    IF l = <<>> THEN {}
    ELSE {Head(l)}
         \cup (IF Head(l).Type = "bool" /\ Head(l).Data.kind = "BoolQuery"
                 THEN ClausesOf(Head(l).Data) ELSE {})
         \cup ClausesOfList(Tail(l))

HasBoolQuery == args.BoolQuery # NilPtr

\* the nesting depth at which a query holds clause c (0: in its own lists)
RECURSIVE DepthOf(_, _)
DepthOf(b, c) ==
    LET own == Range(b.Must) \cup Range(b.Should) \cup Range(b.MustNot)
    IN  IF c \in own THEN 0
        ELSE 1 + DepthOf((CHOOSE x \in own :
                             x.Type = "bool" /\ x.Data.kind = "BoolQuery"
                             /\ c \in ClausesOf(x.Data)).Data, c)

MalformedError(tag) == <<"invalid ", tag, " clause data">>

RECURSIVE CountDoc(_)
RECURSIVE CountDocs(_)
CountDoc(b) ==
    (IF "must" \in DOMAIN b THEN CountDocs(b["must"].elems) ELSE 0)
    + (IF "should" \in DOMAIN b THEN CountDocs(b["should"].elems) ELSE 0)
    + (IF "must_not" \in DOMAIN b THEN CountDocs(b["must_not"].elems) ELSE 0)

CountDocs(elems) ==
    IF elems = <<>> THEN 0
    ELSE 1 + (IF "bool" \in DOMAIN Head(elems) THEN CountDoc(Head(elems).bool) ELSE 0)
         + CountDocs(Tail(elems))

\* the number of clauses in a bool query, nested ones included
RECURSIVE CountQuery(_)
RECURSIVE CountList(_)
CountQuery(b) == CountList(b.Must) + CountList(b.Should) + CountList(b.MustNot)

CountList(l) ==
    IF l = <<>> THEN 0
    ELSE 1 + (IF Head(l).Type = "bool" /\ Head(l).Data.kind = "BoolQuery"
                THEN CountQuery(Head(l).Data) ELSE 0)
         + CountList(Tail(l))

\* C8: a tree that holds a clause with a tag outside the eight known ones does
\* not compile: the error is the unsupported-clause-type error naming that
\* tag (unless a malformed clause fails first); and a compile that succeeds
\* has as many clauses in its document as the tree has, and every one of them
\* carries a known tag.
C8_UnknownTagFails ==
    (pc = "done" /\ HasBoolQuery) =>
        LET all == ClausesOf(args.BoolQuery)
            unknown == {c \in all : c.Type \notin KnownTags}
            malformed == {c \in all : c.Type \in PayloadTags
                                      /\ c.Data.kind # ShapeOf(c.Type)}
        IN  /\ unknown # {} => /\ httpErr # NoErr
                               /\ httpQuery = Nil
            /\ (unknown # {} /\ malformed = {}) =>
                   \E c \in unknown :
                       httpErr = ErrUnsupportedClauseType \o <<": ", c.Type>>
            /\ httpErr = NoErr =>
                   /\ unknown = {}
                   /\ CountDoc(httpQuery["query"].bool) = CountQuery(args.BoolQuery)

\* an unknown tag one level down has failed a compile, and a tree with a
\* nested bool clause has compiled
C8_Witness ==
    /\ pc = "done"
    /\ HasBoolQuery
    /\ \/ /\ httpErr = ErrUnsupportedClauseType \o <<": ", "invalid_type">>
          /\ \E c \in ClausesOf(args.BoolQuery) :
                c.Type = "invalid_type" /\ DepthOf(args.BoolQuery, c) = 1
       \/ /\ httpErr = NoErr
          /\ CountQuery(args.BoolQuery) >= 4
          /\ \E c \in ClausesOf(args.BoolQuery) : c.Type = "bool"

\* a bool document mirrors a bool query: a key for each non-empty list and no
\* other, each array as long as its list, clause i of the array built from
\* clause i of the list, and the same for every nested bool clause
RECURSIVE Mirrors(_, _)
Mirrors(d, b) ==
    LET list(k) == CASE k = "must" -> b.Must
                     [] k = "should" -> b.Should
                     [] k = "must_not" -> b.MustNot
    IN  /\ DOMAIN d = {k \in Roles : list(k) # <<>>}
        /\ \A k \in DOMAIN d :
              /\ Len(d[k].elems) = Len(list(k))
              /\ \A i \in DOMAIN list(k) :
                    LET c == list(k)[i]
                        e == d[k].elems[i]
                    IN  /\ DOMAIN e = {c.Type}
                        /\ c.Type = "match" => DOMAIN e.match = {c.Data.Field}
                        /\ c.Type = "query_string" => e.query_string = c.Data.Query
                        /\ c.Type = "bool" => Mirrors(e.bool, c.Data)

\* C9: the bool document of a compiled bool query has the key must, should or
\* must_not exactly when the source list is non-empty, each array has the
\* length and the clause order of its list, and so has every nested bool.
C9_BoolDocMirrorsQuery ==
    (pc = "done" /\ HasBoolQuery /\ httpErr = NoErr) =>
        /\ DOMAIN httpQuery["query"] = {"bool"}
        /\ Mirrors(httpQuery["query"].bool, args.BoolQuery)

\* the spec's example (a match in must, one clause in must_not, no should) and
\* a compiled tree with a nested bool next to a second clause
C9_Witness ==
    /\ pc = "done"
    /\ HasBoolQuery
    /\ httpErr = NoErr
    /\ \/ /\ Len(args.BoolQuery.Must) = 1 /\ args.BoolQuery.Must[1].Type = "equals"
          /\ args.BoolQuery.Should = <<>>
          /\ Len(args.BoolQuery.MustNot) = 1
          /\ DOMAIN httpQuery["query"].bool = {"must", "must_not"}
       \/ /\ Len(args.BoolQuery.Should) = 2
          /\ args.BoolQuery.Should[2].Type = "bool"
          /\ "should" \in DOMAIN httpQuery["query"].bool
          /\ Len(httpQuery["query"].bool["should"].elems) = 2

\* C11: every document BuildHTTPQuery returns has a query key holding exactly
\* one predicate form: the compiled bool document when a bool_query is
\* present, whatever the query text; else a match of the query text on all
\* fields when the text is non-empty; else an explicit match_all.
C11_QueryHoldsOneForm ==
    (pc = "done" /\ httpErr = NoErr) =>
        /\ httpQuery # Nil
        /\ "query" \in DOMAIN httpQuery
        /\ Cardinality(DOMAIN httpQuery["query"]) = 1
        /\ IF args.BoolQuery # NilPtr
           THEN /\ DOMAIN httpQuery["query"] = {"bool"}
                /\ Mirrors(httpQuery["query"].bool, args.BoolQuery)
           ELSE IF args.Query # <<>>
           THEN httpQuery["query"] = [match |-> ("*" :> args.Query)]
           ELSE httpQuery["query"] = [match_all |-> EmptyMap]

\* a request with both a bool_query and a query text has compiled to the
\* bool form
C11_Witness ==
    /\ pc = "done"
    /\ httpErr = NoErr
    /\ args.BoolQuery # NilPtr
    /\ args.Query # <<>>
    /\ args.BoolQuery.Must # <<>>
    /\ DOMAIN httpQuery["query"] = {"bool"}
    /\ "must" \in DOMAIN httpQuery["query"].bool

(***************************************************************************)
(* The MCP argument mapper.  The tool arguments are a                      *)
(* map[string]interface{}: a function from keys to values tagged with     *)
(* their Go dynamic type.  A number off the wire is a float64; the domain  *)
(* holds whole numbers only, so int(v) is v.  A clause tag is an atom, as  *)
(* in the clause compiler; every other string is a sequence of pieces.     *)
(***************************************************************************)
WString(s) == [kind |-> "string", s |-> s]
WInt(n) == [kind |-> "int", n |-> n]
WFloat(n) == [kind |-> "float64", n |-> n]
WBool(b) == [kind |-> "bool", b |-> b]
WSlice(elems) == [kind |-> "[]interface{}", elems |-> elems]
WStrings(elems) == [kind |-> "[]string", elems |-> elems]
WMap(m) == [kind |-> "map[string]interface{}", m |-> m]

getStringArg(a, key) ==
    IF key \in DOMAIN a /\ a[key].kind = "string" THEN a[key].s ELSE <<>>

getIntArg(a, key) ==
    IF key \in DOMAIN a /\ a[key].kind \in {"int", "float64"} THEN a[key].n ELSE 0

getBoolArg(a, key) ==
    IF key \in DOMAIN a /\ a[key].kind = "bool" THEN a[key].b ELSE FALSE

getStringSliceArg(a, key) ==
    IF key \in DOMAIN a /\ a[key].kind = "[]interface{}"
    THEN LET strs == SelectSeq(a[key].elems, LAMBDA item : item.kind = "string")
         IN  [i \in DOMAIN strs |-> strs[i].s]
    ELSE IF key \in DOMAIN a /\ a[key].kind = "[]string" THEN a[key].elems
    ELSE <<>>

getStringIntMapArg(a, key) ==
    IF key \in DOMAIN a /\ a[key].kind = "map[string]interface{}"
    THEN LET mapData == a[key].m
         IN  [k \in {k \in DOMAIN mapData : mapData[k].kind \in {"int", "float64"}} |->
                 mapData[k].n]
    ELSE NoWeights

getBoolFromMap(m, key) == getBoolArg(m, key)
getStringFromMap(m, key) == getStringArg(m, key)
getIntFromMap(m, key) == getIntArg(m, key)
getStringSliceFromMap(m, key) == getStringSliceArg(m, key)

\* mapToQueryClauses: an entry that is not a map is skipped; the payload is
\* stored as it came, whatever its type.  The error is always nil.
mapToQueryClauses(clauseSlice) ==
    LET maps == SelectSeq(clauseSlice, LAMBDA c : c.kind = "map[string]interface{}")
    IN  [i \in DOMAIN maps |->
            LET clauseMap == maps[i].m
            IN  [Type |-> IF "type" \in DOMAIN clauseMap /\ clauseMap["type"].kind = "string"
                          THEN clauseMap["type"].s ELSE "",
                 Data |-> IF "data" \in DOMAIN clauseMap THEN clauseMap["data"]
                          ELSE [kind |-> "nil"]]]

clausesUnder(boolMap, key) ==
    IF key \in DOMAIN boolMap /\ boolMap[key].kind = "[]interface{}"
    THEN mapToQueryClauses(boolMap[key].elems)
    ELSE <<>>

mapToBoolQuery(boolMap) ==
    NewBoolQuery(clausesUnder(boolMap, "must"), clausesUnder(boolMap, "should"),
                 clausesUnder(boolMap, "must_not"))

IsMap(a, key) == key \in DOMAIN a /\ a[key].kind = "map[string]interface{}"

ErrTableRequired == <<"table parameter is required">>

mapToSearchArgs(a) ==
    LET searchArgs ==
          [Query |-> getStringArg(a, "query"),
           Table |-> getStringArg(a, "table"),
           Cluster |-> getStringArg(a, "cluster"),
           Limit |-> getIntArg(a, "limit"),
           Offset |-> getIntArg(a, "offset"),
           Fields |-> getStringSliceArg(a, "fields"),
           Ranker |-> getStringArg(a, "ranker"),
           MatchMode |-> getStringArg(a, "match_mode"),
           MaxMatches |-> getIntArg(a, "max_matches"),
           Cutoff |-> getIntArg(a, "cutoff"),
           MaxQueryTime |-> getIntArg(a, "max_query_time"),
           FieldWeights |-> getStringIntMapArg(a, "field_weights"),
           NotTermsOnlyAllowed |-> getIntArg(a, "not_terms_only_allowed"),
           BooleanSimplify |-> getIntArg(a, "boolean_simplify"),
           AccurateAggregation |-> getIntArg(a, "accurate_aggregation"),
           RandSeed |-> getIntArg(a, "rand_seed"),
           Comment |-> getStringArg(a, "comment"),
           AgentQueryTimeout |-> getIntArg(a, "agent_query_timeout"),
           RetryCount |-> getIntArg(a, "retry_count"),
           RetryDelay |-> getIntArg(a, "retry_delay"),
           Morphology |-> getStringArg(a, "morphology"),
           TokenFilter |-> getStringArg(a, "token_filter"),
           MaxPredictedTime |-> getIntArg(a, "max_predicted_time"),
           OrderBy |-> getStringSliceArg(a, "order_by"),
           GroupBy |-> getStringSliceArg(a, "group_by"),
           GroupSort |-> getStringArg(a, "group_sort"),
           Where |-> getStringSliceArg(a, "where"),
           UseHTTP |-> getBoolArg(a, "use_http"),
           Highlight |->
             IF IsMap(a, "highlight")
             THEN LET highlightMap == a["highlight"].m
                  IN  [kind |-> "HighlightOptions",
                       Enabled |-> getBoolFromMap(highlightMap, "enabled"),
                       Fields |-> getStringSliceFromMap(highlightMap, "fields"),
                       Limit |-> getIntFromMap(highlightMap, "limit"),
                       LimitPerField |-> getIntFromMap(highlightMap, "limit_per_field"),
                       LimitWords |-> getIntFromMap(highlightMap, "limit_words"),
                       Around |-> getIntFromMap(highlightMap, "around"),
                       StartTag |-> getStringFromMap(highlightMap, "start_tag"),
                       EndTag |-> getStringFromMap(highlightMap, "end_tag"),
                       NumberFragments |->
                         getIntFromMap(highlightMap, "number_of_fragments")]
             ELSE NilPtr,
           Fuzzy |->
             IF IsMap(a, "fuzzy")
             THEN LET fuzzyMap == a["fuzzy"].m
                  IN  [kind |-> "FuzzyOptions",
                       Enabled |-> getBoolFromMap(fuzzyMap, "enabled"),
                       Distance |-> getIntFromMap(fuzzyMap, "distance"),
                       Preserve |-> getIntFromMap(fuzzyMap, "preserve"),
                       Layouts |-> getStringSliceFromMap(fuzzyMap, "layouts")]
             ELSE NilPtr,
           BoolQuery |->
             IF IsMap(a, "bool_query") THEN mapToBoolQuery(a["bool_query"].m)
             ELSE NilPtr]
    IN  IF searchArgs.Table = <<>> THEN [args |-> NilPtr, err |-> ErrTableRequired]
        ELSE [args |-> searchArgs, err |-> NoErr]

(***************************************************************************)
(* The dispatcher: Handler.Execute, the two paths under it and the         *)
(* lowering of a JSON document to the statement that is sent.  A path      *)
(* returns what it leaves behind when it reaches the client call or        *)
(* returns early: the compilers it ran, the JSON document and error of     *)
(* BuildHTTPQuery, the statement it built, and its error.                  *)
(***************************************************************************)
ErrQueryRequired ==
    <<"query parameter is required for SQL search when no WHERE conditions are provided">>
ErrInvalidQueryFormat == <<"invalid query format">>
ErrInvalidMatchQuery == <<"invalid match query format">>
ErrInvalidBoolQuery == <<"invalid bool query format">>
ErrUnsupportedQueryType == <<"unsupported query type">>

Wrap(prefix, e) == <<prefix>> \o e

Path(ran, doc, docErr, stmt, e) ==
    [compiled |-> ran, httpQuery |-> doc, httpErr |-> docErr, stmt |-> stmt, err |-> e]

\* first: the key the range over the match map yields first
handleMatchQuery(queryMap, first) ==
    LET matchMap == queryMap["match"]
    IN  IF DOMAIN matchMap = {} THEN <<>>
        ELSE IF first = "*"
        THEN <<"MATCH('">> \o ReplaceAll(matchMap[first], Quote, <<Quote, Quote>>)
             \o <<"')">>
        ELSE <<"MATCH('@", first, " ">>
             \o ReplaceAll(matchMap[first], Quote, <<Quote, Quote>>) \o <<"')">>

handleQueryStringQuery(queryMap) ==
    <<"MATCH('">> \o ReplaceAll(queryMap["query_string"], Quote, <<Quote, Quote>>)
    \o <<"')">>

RECURSIVE appendQueryToSQL(_, _)
RECURSIVE processMustClauses(_, _)
RECURSIVE mustConditions(_, _)

\* the loop of processMustClauses: it stops at the first clause that fails
mustConditions(mustSlice, first) ==
    IF mustSlice = <<>> THEN [s |-> <<>>, err |-> NoErr]
    ELSE LET sub == appendQueryToSQL(Head(mustSlice), first)
         IN  IF sub.err # NoErr THEN [s |-> <<>>, err |-> sub.err]
             ELSE LET rest == mustConditions(Tail(mustSlice), first)
                  IN  IF rest.err # NoErr THEN rest
                      ELSE [s |-> << <<"(">> \o sub.s \o <<")">> >> \o rest.s,
                            err |-> NoErr]

\* the must array is read only when its Go type is []interface{}
processMustClauses(boolMap, first) ==
    IF "must" \in DOMAIN boolMap /\ boolMap["must"].gotype = "[]interface{}"
    THEN mustConditions(boolMap["must"].elems, first)
    ELSE [s |-> <<>>, err |-> NoErr]

handleBoolQuery(queryMap, first) ==
    LET conditions == processMustClauses(queryMap["bool"], first)
    IN  IF conditions.err # NoErr THEN conditions
        ELSE IF Len(conditions.s) > 0
        THEN [s |-> Join(conditions.s, <<" AND ">>), err |-> NoErr]
        ELSE [s |-> <<"1=1">>, err |-> NoErr]

appendQueryToSQL(query, first) ==
    IF "match" \in DOMAIN query THEN [s |-> handleMatchQuery(query, first), err |-> NoErr]
    ELSE IF "match_all" \in DOMAIN query THEN [s |-> <<"1=1">>, err |-> NoErr]
    ELSE IF "query_string" \in DOMAIN query
    THEN [s |-> handleQueryStringQuery(query), err |-> NoErr]
    ELSE IF "bool" \in DOMAIN query THEN handleBoolQuery(query, first)
    ELSE [s |-> <<>>, err |-> ErrUnsupportedQueryType]

\* the statement simulateHTTPQuery builds, or the error it returns before
\* the client call
simulateHTTPQuery(httpQ, first) ==
    LET where == IF "query" \in DOMAIN httpQ THEN appendQueryToSQL(httpQ["query"], first)
                 ELSE [s |-> <<>>, err |-> NoErr]
    IN  IF where.err # NoErr THEN [s |-> <<>>, err |-> where.err]
        ELSE [s |-> <<"SELECT * FROM ">> \o httpQ["table"]
                    \o (IF "query" \in DOMAIN httpQ THEN <<" WHERE ">> \o where.s
                        ELSE <<>>)
                    \o (IF "limit" \in DOMAIN httpQ /\ httpQ["limit"] > 0
                        THEN <<" LIMIT ">> \o Itoa(httpQ["limit"]) ELSE <<>>)
                    \o (IF "offset" \in DOMAIN httpQ /\ httpQ["offset"] > 0
                        THEN <<" OFFSET ">> \o Itoa(httpQ["offset"]) ELSE <<>>),
              err |-> NoErr]

executeHTTPQuery(a, first) ==
    LET b == [a EXCEPT !.Limit = IF @ <= 0 THEN 10 ELSE @]
        r == BuildHTTPQuery(NewQueryBuilder(b.Cluster, b.Table), b)
    IN  IF r.err # NoErr
        THEN Path(<<"BuildHTTPQuery">>, r.doc, r.err, <<>>,
                  Wrap("failed to build HTTP query: ", r.err))
        ELSE LET lowered == simulateHTTPQuery(r.doc, first)
             IN  Path(<<"BuildHTTPQuery">>, r.doc, r.err, lowered.s, lowered.err)

\* a plausible slip: the limit is compiled as it came
executeSQLQueryLimitAsGiven(a, order) ==
    IF a.Query = <<>> /\ Len(a.Where) = 0
    THEN Path(<<>>, Nil, NoErr, <<>>, ErrQueryRequired)
    ELSE LET b == [a EXCEPT !.MatchMode = IF @ = <<>> THEN <<"extended">> ELSE @]
         IN  Path(<<"buildSQL">>, Nil, NoErr, buildSQL(b, order), NoErr)

executeSQLQueryUnchecked(a, order) ==
    LET b == [a EXCEPT !.Limit = IF @ <= 0 THEN 10 ELSE @,
                       !.MatchMode = IF @ = <<>> THEN <<"extended">> ELSE @]
    IN  Path(<<"buildSQL">>, Nil, NoErr, buildSQL(b, order), NoErr)

executeSQLQueryQueryOnly(a, order) ==
    IF a.Query = <<>> THEN Path(<<>>, Nil, NoErr, <<>>, ErrQueryRequired)
    ELSE executeSQLQueryUnchecked(a, order)

executeSQLQuery(a, order) ==
    IF a.Query = <<>> /\ Len(a.Where) = 0
    THEN Path(<<>>, Nil, NoErr, <<>>, ErrQueryRequired)
    ELSE LET b == [a EXCEPT !.Limit = IF @ <= 0 THEN 10 ELSE @,
                            !.MatchMode = IF @ = <<>> THEN <<"extended">> ELSE @]
         IN  Path(<<"buildSQL">>, Nil, NoErr, buildSQL(b, order), NoErr)

\* the error of a failed client call, tagged with the text path's stage
\* whichever compiler ran
backendErrorTextTag(ran, e) == Wrap("SQL search failed: ", e)

\* the error executeSQLQuery (ran = buildSQL) and simulateHTTPQuery return
\* when the client call fails: fmt.Errorf("<stage>: %w", err)
backendError(ran, e) ==
    Wrap(IF ran = <<"buildSQL">> THEN "SQL search failed: "
         ELSE "simulated HTTP search failed: ", e)

needsHTTPFlagOnly(a) == a.UseHTTP

\* the test that sends a request down the JSON path
needsHTTP(a) == a.UseHTTP \/ a.BoolQuery # NilPtr

\* Handler.Execute up to the client call
Execute(a, order, first) ==
    IF a.Table = <<>> THEN Path(<<>>, Nil, NoErr, <<>>, ErrTableRequired)
    ELSE IF needsHTTP(a) THEN executeHTTPQuery(a, first)
    ELSE executeSQLQuery(a, order)

(***************************************************************************)
(* The search tool as a state machine.  A call enters at handleSearchTool  *)
(* with tool arguments off the wire, or at Handler.Execute with a          *)
(* search.Args built in process.  Execute runs up to the client call; the  *)
(* backend answers with rows or with an error; the tool handler wraps the  *)
(* outcome in a Response (the struct that is then marshalled to JSON).     *)
(***************************************************************************)
MaxResultsPerQuery == 100

\* json.MarshalIndent of a Meta: total and count always, every other key
\* only when its field is not the zero value (omitempty)
MarshalMeta(meta) ==
    ("total" :> meta.Total) @@ ("count" :> meta.Count)
    @@ (IF meta.Limit # 0 THEN "limit" :> meta.Limit ELSE EmptyMap)
    @@ (IF meta.Offset # 0 THEN "offset" :> meta.Offset ELSE EmptyMap)
    @@ (IF meta.Table # <<>> THEN "table" :> meta.Table ELSE EmptyMap)
    @@ (IF meta.Cluster # <<>> THEN "cluster" :> meta.Cluster ELSE EmptyMap)
    @@ (IF meta.Operation # <<>> THEN "operation" :> meta.Operation ELSE EmptyMap)

ErrUnsupportedType == <<"json: unsupported type">>

\* json.MarshalIndent of a Response: success always; data, error and meta
\* only when set (omitempty).  A value encoding/json has no form for makes
\* the call fail.
MarshalIndent(r) ==
    IF r.Data.kind = "unsupported" THEN [doc |-> Nil, err |-> ErrUnsupportedType]
    ELSE [doc |-> ("success" :> r.Success)
                  @@ (IF r.Data # Nil THEN "data" :> r.Data ELSE EmptyMap)
                  @@ (IF r.Error # <<>> THEN "error" :> r.Error ELSE EmptyMap)
                  @@ (IF r.Meta # Nil THEN "meta" :> MarshalMeta(r.Meta) ELSE EmptyMap),
          err |-> NoErr]

\* what a tool handler returns: the text content of the ToolResponse (the
\* JSON document) and the Go error
NewToolResponse(doc) == [content |-> doc, err |-> NoErr]

\* a plausible slip: the failure comes back as a Go error, without a response
errorResponseAsGoError(message) == [content |-> Nil, err |-> message]

errorResponse(message) ==
    NewToolResponse(MarshalIndent([Success |-> FALSE, Error |-> message,
                                   Data |-> Nil, Meta |-> Nil]).doc)

successResponse(r) ==
    LET jsonData == MarshalIndent(r)
    IN  IF jsonData.err # NoErr
        THEN errorResponse(Wrap("Failed to serialize response: ", jsonData.err))
        ELSE NewToolResponse(jsonData.doc)

searchResponse(results, searchArgs) ==
    [Success |-> TRUE, Error |-> <<>>, Data |-> results,
     Meta |-> [Total |-> Len(results.elems), Count |-> Len(results.elems),
               Limit |-> searchArgs.Limit, Offset |-> searchArgs.Offset,
               Table |-> searchArgs.Table, Cluster |-> searchArgs.Cluster,
               Operation |-> <<"search">>]]

\* the keys the first range step over a top-level match map may yield
MatchKeys(a) ==
    LET main == mainQuery(a)
    IN  IF main.err = NoErr /\ "match" \in DOMAIN main.doc /\ DOMAIN main.doc["match"] # {}
        THEN DOMAIN main.doc["match"]
        ELSE {"*"}

\* a result set: a []map[string]interface{} that is not nil
Rows(elems) == [kind |-> "[]map[string]interface{}", elems |-> elems]

\* what the backend may answer to a statement
BackendOutcomes ==
    {[rows |-> Rows(<<>>), err |-> NoErr],
     [rows |-> Rows(<<[id |-> 1]>>), err |-> NoErr],
     [rows |-> Nil, err |-> <<"connection refused">>],
     [rows |-> Nil, err |-> <<"context canceled">>]}

\* clauses as they come off the wire: {type, data: {...}}
WireClause(tag, field, query) ==
    WMap("type" :> WString(tag)
         @@ "data" :> WMap("field" :> WString(field) @@ "query" :> WString(query)))

WireMatchContent == WireClause("match", <<"content">>, <<"important">>)
WireMatchTitle == WireClause("match", <<"title">>, <<"news">>)

WireBoolQueries ==
    {WMap("must" :> WSlice(<<WireMatchContent>>)),
     WMap("must" :> WSlice(<<WireMatchContent>>) @@ "should" :> WSlice(<<WireMatchTitle>>)),
     WMap("must_not" :> WSlice(<<WireMatchTitle, WireMatchContent>>)),
     WMap("must" :> WSlice(<<WString(<<"match">>), WMap("type" :> WString("match_all"))>>)),
     WMap("must" :> WSlice(<<WMap("type" :> WFloat(1) @@ "data" :> WString(<<"x">>))>>)),
     WMap("should" :> WString(<<"match">>)),
     WMap(EmptyMap)}

WireOpt(key, vals) == {EmptyMap} \cup {key :> v : v \in vals}

WireRequests ==
    {t @@ q @@ w @@ l @@ u @@ b :
        t \in WireOpt("table", {WString(<<>>), WString(<<"documents">>), WFloat(7)}),
        q \in WireOpt("query", {WString(<<"a">>)}),
        w \in WireOpt("where", {WSlice(<<WString(<<"price>10">>), WFloat(1)>>)}),
        l \in WireOpt("limit", {WFloat(5), WInt(0 - 1)}),
        u \in WireOpt("use_http", {WBool(TRUE), WString(<<"true">>)}),
        b \in WireOpt("bool_query", WireBoolQueries \cup {WString(<<"must">>)})}
    \cup {("table" :> WString(<<"documents">>) @@ "query" :> WString(<<"a">>)
           @@ "cluster" :> WString(<<"c1">>) @@ "offset" :> WFloat(20)
           @@ "fields" :> WStrings(<< <<"id">>, <<"title">> >>)
           @@ "field_weights" :> WMap("title" :> WFloat(10) @@ "body" :> WString(<<"x">>))
           @@ "highlight" :> WMap("enabled" :> WBool(TRUE) @@ "limit" :> WFloat(3))
           @@ "fuzzy" :> WMap("enabled" :> WBool(TRUE) @@ "distance" :> WFloat(2))
           @@ u)
        : u \in WireOpt("use_http", {WBool(TRUE)})}
    \cup {("table" :> WString(<<"documents">>) @@ "query" :> WString(<<"a">>)
           @@ "limit" :> WFloat(5 * MaxResultsPerQuery) @@ u)
        : u \in WireOpt("use_http", {WBool(TRUE)})}

ExecBoolQueries ==
    {NilPtr,
     NewBoolQuery(<<>>, <<>>, <<>>),
     NewBoolQuery(<<GoodMatch>>, <<>>, <<GoodQueryString>>),
     NewBoolQuery(<<GoodMatch, [Type |-> "range", Data |-> StringData]>>, <<>>, <<>>),
     NewBoolQuery(<<>>, <<[Type |-> "invalid_type", Data |-> StringData]>>, <<>>),
     NewBoolQuery(<<NewBoolClause(NewBoolQuery(<<>>, <<>>,
                                               <<[Type |-> "bool", Data |-> NilData]>>))>>,
                  <<GoodMatch>>, <<>>),
     NewBoolQuery(<<NewBoolClause(NewBoolQuery(<<NewMatchAllClause>>, <<>>, <<>>))>>,
                  <<>>, <<>>)}

ExecArgs ==
    {[ZeroArgs EXCEPT !.Table = t, !.Query = q, !.Where = w, !.UseHTTP = u,
                      !.BoolQuery = b, !.Limit = l] :
        t \in {<<>>, <<"docs">>}, q \in {<<>>, <<"a">>, <<Quote>>},
        w \in {<<>>, <<<<"price>10">>>>}, u \in BOOLEAN, b \in ExecBoolQueries,
        l \in {0, 5}}
    \cup {[ZeroArgs EXCEPT !.Table = <<"docs">>, !.Query = <<"a">>, !.UseHTTP = u,
                           !.FieldWeights = ("title" :> 10 @@ "body" :> 5)] :
             u \in BOOLEAN}
    \cup {[ZeroArgs EXCEPT !.Table = <<"docs">>, !.Query = <<"a">>, !.UseHTTP = u,
                           !.BooleanSimplify = bs, !.MaxMatches = m] :
             u \in BOOLEAN, bs \in {0 - 1, 0, 1, 2}, m \in {0, 1000}}

Init ==
    /\ ValueIdle
    /\ HttpIdle
    /\ sql = <<>>
    /\ compiled = <<>>
    /\ sent = <<>>
    /\ rows = Nil
    /\ execErr = NoErr
    /\ response = NoResponse
    /\ ClientIdle
    /\ \/ pc = "handleSearchTool" /\ wire \in WireRequests /\ args = ZeroArgs
       \/ pc = "Execute" /\ wire = NoWire /\ args \in ExecArgs

\* handleSearchTool up to the call of Execute
HandleSearchTool ==
    /\ pc = "handleSearchTool"
    /\ \E r \in {mapToSearchArgs(wire)} :
           IF r.err # NoErr
           THEN /\ response' = errorResponse(Wrap("Invalid search arguments: ", r.err))
                /\ pc' = "done"
                /\ UNCHANGED args
           ELSE /\ args' = [r.args EXCEPT
                              !.Limit = IF @ <= 0 THEN MaxResultsPerQuery ELSE @]
                /\ pc' = "Execute"
                /\ UNCHANGED response
    /\ UNCHANGED <<wire, sql, compiled, sent, rows, execErr, valueVars, httpVars, clientVars>>

\* a plausible slip: Execute works on the caller's Args through a pointer,
\* so the default limit lands in the caller's spec
CallExecuteOnCallersArgs ==
    /\ pc = "Execute"
    /\ \E order \in Orders(DOMAIN args.FieldWeights), first \in MatchKeys(args) :
          \E r \in {Execute(args, order, first)} :
              /\ compiled' = r.compiled
              /\ httpQuery' = r.httpQuery
              /\ httpErr' = r.httpErr
              /\ sql' = r.stmt
              /\ execErr' = r.err
              /\ pc' = IF r.err # NoErr THEN "return" ELSE "ExecuteSQL"
    /\ args' = [args EXCEPT !.Limit = IF @ <= 0 THEN 10 ELSE @]
    /\ UNCHANGED <<wire, sent, rows, response, valueVars, clientVars>>

\* Handler.Execute up to the client call, or to its early return
CallExecute ==
    /\ pc = "Execute"
    /\ \E order \in Orders(DOMAIN args.FieldWeights), first \in MatchKeys(args) :
          \E r \in {Execute(args, order, first)} :
              /\ compiled' = r.compiled
              /\ httpQuery' = r.httpQuery
              /\ httpErr' = r.httpErr
              /\ sql' = r.stmt
              /\ execErr' = r.err
              /\ pc' = IF r.err # NoErr THEN "return" ELSE "ExecuteSQL"
    /\ UNCHANGED <<wire, args, sent, rows, response, valueVars, clientVars>>

\* client.ExecuteSQL and the return of Execute after it
ClientExecuteSQL ==
    /\ pc = "ExecuteSQL"
    /\ sent' = Append(sent, sql)
    /\ \E outcome \in BackendOutcomes :
          IF outcome.err # NoErr
          THEN /\ rows' = Nil
               /\ execErr' = backendError(compiled, outcome.err)
          ELSE /\ rows' = outcome.rows
               /\ execErr' = NoErr
    /\ pc' = "return"
    /\ UNCHANGED <<wire, args, sql, compiled, response, valueVars, httpVars, clientVars>>

\* handleSearchTool after Execute has returned
Respond ==
    /\ pc = "return"
    /\ wire # NoWire
    /\ response' = IF execErr # NoErr
                   THEN errorResponse(Wrap("Search failed: ", execErr))
                   ELSE successResponse(searchResponse(rows, args))
    /\ pc' = "done"
    /\ UNCHANGED <<wire, args, sql, compiled, sent, rows, execErr, valueVars, httpVars, clientVars>>

Next == HandleSearchTool \/ CallExecute \/ ClientExecuteSQL \/ Respond

Spec == Init /\ [][Next]_vars

(***************************************************************************)
(* Properties of the dispatcher and of the tool handler in front of it.    *)
(***************************************************************************)
\* Execute has run up to the client call or to its return
Executed == pc \in {"ExecuteSQL", "return"} \/ (pc = "done" /\ args.Table # <<>>)

TextMode(a) == ~a.UseHTTP /\ a.BoolQuery = NilPtr

NoPredicate(a) == a.Query = <<>> /\ a.Where = <<>>

\* a clause the clause compiler cannot compile: an unknown tag, or a payload
\* that is not of the tag's type
BrokenClause(c) ==
    \/ c.Type \notin KnownTags
    \/ c.Type \in PayloadTags /\ c.Data.kind # ShapeOf(c.Type)

\* the request cannot be compiled
CompileStageFailure(a) ==
    \/ a.Table = <<>>
    \/ TextMode(a) /\ NoPredicate(a)
    \/ a.BoolQuery # NilPtr /\ \E c \in ClausesOf(a.BoolQuery) : BrokenClause(c)

\* C1: when the request cannot be compiled (missing table, no predicate in
\* text mode, unsupported clause type, malformed clause payload), Execute
\* returns an error and no statement has been handed to the client's
\* ExecuteSQL; a statement is in flight or has been handed over only for a
\* request that compiles, and it is the one statement the call built.
C1_NoStatementOnCompileError ==
    /\ (Executed /\ CompileStageFailure(args)) =>
          /\ execErr # NoErr
          /\ pc # "ExecuteSQL"
          /\ sent = <<>>
          /\ rows = Nil
    /\ (pc = "ExecuteSQL" \/ sent # <<>>) => ~CompileStageFailure(args)
    /\ sent # <<>> => sent = <<sql>>

\* Execute has returned the error of a clause that sits behind a clause that
\* compiled, and nothing was sent
C1_Witness ==
    /\ pc = "return"
    /\ args.BoolQuery # NilPtr
    /\ Len(args.BoolQuery.Must) = 2
    /\ ~BrokenClause(args.BoolQuery.Must[1])
    /\ BrokenClause(args.BoolQuery.Must[2])
    /\ execErr = Wrap("failed to build HTTP query: ", ErrInvalidRangeClauseData)
    /\ sent = <<>>

\* C2, as claimed: for a non-empty table exactly one compiler runs per call,
\* BuildHTTPQuery when the request carries a bool_query or has use_http set
\* and buildSQL otherwise.
C2_ExactlyOneCompilerRuns ==
    (Executed /\ args.Table # <<>>) =>
        compiled = IF args.UseHTTP \/ args.BoolQuery # NilPtr
                   THEN <<"BuildHTTPQuery">> ELSE <<"buildSQL">>

\* C2, amended: for a non-empty table BuildHTTPQuery runs if and only if the
\* request carries a bool_query or has use_http set; buildSQL runs if and
\* only if it does neither and has a query text or a where expression; so
\* at most one compiler runs, and none runs only for a text-mode request
\* that is rejected for having no predicate.
C2_CompilerFollowsMode ==
    (Executed /\ args.Table # <<>>) =>
        /\ compiled = <<"BuildHTTPQuery">> <=> (args.UseHTTP \/ args.BoolQuery # NilPtr)
        /\ compiled = <<"buildSQL">> <=> (TextMode(args) /\ ~NoPredicate(args))
        /\ compiled = <<>> <=> (TextMode(args) /\ NoPredicate(args))

\* a request with a bool_query and use_http unset went down the JSON path,
\* and its statement was sent
C2_Witness ==
    /\ pc = "return"
    /\ args.Table # <<>>
    /\ ~args.UseHTTP
    /\ args.BoolQuery # NilPtr
    /\ compiled = <<"BuildHTTPQuery">>
    /\ Len(sent) = 1

\* the tool arguments carry no table: the key is missing, or its value is
\* not a string, or it is the empty string
WireTableEmpty(w) ==
    ~("table" \in DOMAIN w /\ w["table"].kind = "string" /\ w["table"].s # <<>>)

\* C6: Execute returns a missing-required-field error exactly when the table
\* is empty, or the request is in text mode and has neither query text nor
\* where expression (so a text-mode request with an empty query and a where
\* expression is not rejected); and mapToSearchArgs rejects tool arguments
\* with an empty table with 'table parameter is required' and a nil result,
\* so that Execute is not called for them.
C6_MissingFieldErrors ==
    /\ Executed =>
          /\ execErr \in {ErrTableRequired, ErrQueryRequired}
                <=> (args.Table = <<>> \/ (TextMode(args) /\ NoPredicate(args)))
          /\ args.Table = <<>> => execErr = ErrTableRequired
          /\ (TextMode(args) /\ args.Table # <<>> /\ args.Query = <<>>
              /\ Len(args.Where) > 0 /\ pc = "ExecuteSQL") => execErr = NoErr
    /\ (wire # NoWire /\ WireTableEmpty(wire)) =>
          /\ mapToSearchArgs(wire) = [args |-> NilPtr, err |-> ErrTableRequired]
          /\ pc \in {"handleSearchTool", "done"}
          /\ args = ZeroArgs
          /\ compiled = <<>>
          /\ pc = "done" =>
                response = errorResponse(<<"Invalid search arguments: ",
                                           "table parameter is required">>)

\* a text-mode request with a table and neither query text nor where
\* expression has been rejected
C6_Witness ==
    /\ pc = "return"
    /\ args.Table # <<>>
    /\ TextMode(args)
    /\ NoPredicate(args)
    /\ execErr = ErrQueryRequired

\* a match clause in the wire shape {type: match, data: {field, query}}
WellFormedWireMatch(c) ==
    /\ c.kind = "map[string]interface{}"
    /\ DOMAIN c.m = {"type", "data"}
    /\ c.m["type"] = WString("match")
    /\ c.m["data"].kind = "map[string]interface{}"
    /\ DOMAIN c.m["data"].m = {"field", "query"}
    /\ c.m["data"].m["field"].kind = "string"
    /\ c.m["data"].m["query"].kind = "string"

\* tool arguments with a table and a bool_query whose lists hold well-formed
\* match clauses, at least one of them under must
WellFormedWireRequest(w) ==
    /\ ~WireTableEmpty(w)
    /\ IsMap(w, "bool_query")
    /\ LET boolMap == w["bool_query"].m
       IN  /\ "must" \in DOMAIN boolMap
           /\ DOMAIN boolMap \subseteq {"must", "should", "must_not"}
           /\ \A key \in DOMAIN boolMap :
                 /\ boolMap[key].kind = "[]interface{}"
                 /\ boolMap[key].elems # <<>>
                 /\ \A i \in DOMAIN boolMap[key].elems :
                       WellFormedWireMatch(boolMap[key].elems[i])

\* C10: tool arguments whose bool_query holds well-formed clauses in the wire
\* shape compile without error through mapToSearchArgs and BuildHTTPQuery,
\* and clause i of bool.must is {match: {field: query}} of wire clause i.
C10_WireBoolQueryCompiles ==
    (wire # NoWire /\ WellFormedWireRequest(wire) /\ pc \in {"ExecuteSQL", "return", "done"}) =>
        /\ httpErr = NoErr
        /\ httpQuery # Nil
        /\ LET must == wire["bool_query"].m["must"].elems
               doc == httpQuery["query"]["bool"]["must"].elems
           IN  /\ Len(doc) = Len(must)
               /\ \A i \in DOMAIN must :
                     doc[i] = [match |-> (must[i].m["data"].m["field"].s
                                          :> must[i].m["data"].m["query"].s)]

(***************************************************************************)
(* Properties of the statements and documents the two paths build.         *)
(***************************************************************************)
TextPathCompiled == Executed /\ compiled = <<"buildSQL">>

JsonPathCompiled == Executed /\ compiled = <<"BuildHTTPQuery">> /\ httpErr = NoErr

\* the statement carries the boolean_simplify option
SqlHasSimplify(s) == \E i \in DOMAIN s : s[i] = "boolean_simplify=0"

\* the document carries the boolean_simplify option
DocHasSimplify(d) ==
    "options" \in DOMAIN d /\ "boolean_simplify" \in DOMAIN d["options"]

\* C12, as claimed: in the options output of both compilers boolean_simplify
\* is absent when the field has its default value 1 and present for every
\* other value.
C12_SimplifyShownUnlessDefault ==
    /\ TextPathCompiled => (SqlHasSimplify(sql) <=> args.BooleanSimplify # 1)
    /\ JsonPathCompiled => (DocHasSimplify(httpQuery) <=> args.BooleanSimplify # 1)

\* C12, amended: in the options output of both compilers boolean_simplify is
\* present, with the value 0, exactly when the field is 0; it is absent for
\* the default 1 and for every other non-zero value.
C12_SimplifyShownOnlyWhenZero ==
    /\ TextPathCompiled => (SqlHasSimplify(sql) <=> args.BooleanSimplify = 0)
    /\ JsonPathCompiled =>
          /\ DocHasSimplify(httpQuery) <=> args.BooleanSimplify = 0
          /\ DocHasSimplify(httpQuery) => httpQuery["options"]["boolean_simplify"] = 0

\* a request with boolean_simplify = 2 has compiled on the JSON path, and its
\* document carries other options but not this one
C12_Witness ==
    /\ JsonPathCompiled
    /\ args.BooleanSimplify = 2
    /\ "options" \in DOMAIN httpQuery
    /\ ~DocHasSimplify(httpQuery)

\* the indices at which a statement holds a keyword the compiler writes
KeywordAt(s, keyword) == {i \in DOMAIN s : s[i] = keyword}

\* C13: the statement buildSQL returns has a LIMIT clause, with the limit as
\* its number, if and only if limit > 0, and an OFFSET clause, with the offset
\* as its number, if and only if offset > 0; each at most once, and OFFSET
\* right after the LIMIT clause when both are there.
C13_LimitOffsetClauses ==
    pc = "done" =>
        LET limits == KeywordAt(sql, " LIMIT ")
            offsets == KeywordAt(sql, " OFFSET ")
        IN  /\ limits # {} <=> args.Limit > 0
            /\ offsets # {} <=> args.Offset > 0
            /\ Cardinality(limits) <= 1
            /\ Cardinality(offsets) <= 1
            /\ \A i \in limits :
                  SubSeq(sql, i + 1, i + Len(Itoa(args.Limit))) = Itoa(args.Limit)
            /\ \A j \in offsets :
                  SubSeq(sql, j + 1, j + Len(Itoa(args.Offset))) = Itoa(args.Offset)
            /\ \A i \in limits, j \in offsets : j = i + Len(Itoa(args.Limit)) + 1

\* the spec's second example: limit 10 and offset 0 have given LIMIT 10 and no
\* OFFSET
C13_Witness ==
    /\ pc = "done"
    /\ args.Limit = 10
    /\ args.Offset = 0
    /\ \E i \in KeywordAt(sql, " LIMIT ") : SubSeq(sql, i + 1, i + 2) = <<"1", "0">>
    /\ KeywordAt(sql, " OFFSET ") = {}

\* C14: the sort list of a compiled document has one entry per order-by
\* expression, in the same order, each a single field-to-direction pair: an
\* expression of two tokens, field and direction, gives {field: lowercased
\* direction}, and an expression of one token, the field, gives {field: asc}.
C14_SortEntries ==
    (pc = "done" /\ httpErr = NoErr /\ args.OrderBy # <<>>) =>
        /\ "sort" \in DOMAIN httpQuery
        /\ Len(httpQuery["sort"]) = Len(args.OrderBy)
        /\ \A i \in DOMAIN args.OrderBy :
              LET tokens == StringFields(args.OrderBy[i])
              IN  /\ Len(tokens) = 2 =>
                        httpQuery["sort"][i] = (tokens[1] :> ToLower(tokens[2]))
                  /\ Len(tokens) = 1 =>
                        httpQuery["sort"][i] = (tokens[1] :> <<"asc">>)

(***************************************************************************)
(* The HTTP client: Client.ExecuteSQL and the retry loop of doRawRequest.  *)
(* The loop runs as one goroutine; the context is cancelled, the delay     *)
(* timer fires and the backend answers from outside it.  A select that is  *)
(* blocked takes the case of the first channel that becomes ready; a       *)
(* select that finds both channels ready takes either.  The error of a     *)
(* failed transport is modelled by the text of its cause.                  *)
(***************************************************************************)
MaxRetries == 2     \* largest maxRetries of a client configuration

ErrContextCanceled == <<"context canceled">>
ErrConnectionRefused == <<"connection refused">>

Background == [done |-> FALSE, at |-> "", seen |-> 0]

\* the loop condition of doRawRequest
loopContinuesOnceMore(n, maxRetries) == n <= maxRetries + 1

loopContinues(n, maxRetries) == n <= maxRetries

\* a 5xx answer is retried while attempts are left
\* a plausible slip: every error status is retried
retryableFrom400(statusCode, n, maxRetries) == statusCode >= 400 /\ n < maxRetries

retryable(statusCode, n, maxRetries) == statusCode >= 500 /\ n < maxRetries

\* the select of a plain sleep: only the timer is looked at
selectTimerOnly(ctxDone, timerFired) == IF timerFired THEN {"timer"} ELSE {}

\* the cases of the select that can proceed
selectReady(ctxDone, timerFired) ==
    (IF ctxDone THEN {"ctx"} ELSE {}) \cup (IF timerFired THEN {"timer"} ELSE {})

\* the case a select takes, "none" while it blocks
Pick(ready) == IF ready = {} THEN {"none"} ELSE ready

\* url.Parse inside http.NewRequestWithContext: a URL that starts with a
\* colon has no scheme
urlParses(url) == url # <<>> /\ Head(url) # ":"

newRequestEmptyBodyOnRetry(c, r, n) ==
    [method |-> r.method, url |-> c.baseURL \o r.endpoint,
     body |-> IF n = 0 THEN r.query ELSE <<>>]

\* the request of attempt n
newRequest(c, r, n) ==
    [method |-> r.method, url |-> c.baseURL \o r.endpoint, body |-> r.query]

failedAfter(n, e) ==
    <<"request failed after ">> \o Itoa(n) \o <<" attempts: ">>
    \o (IF e = NoErr THEN <<"%!w(<nil>)">> ELSE e)

\* a plausible slip: no rows at all, instead of an empty row set, for a
\* response that is not a list of result sets
rowsOfNilWhenNoResultSet(respBody) ==
    IF respBody.kind # "[]interface{}" \/ Len(respBody.elems) = 0 THEN Nil
    ELSE LET firstResult == respBody.elems[1]
         IN  IF ~(firstResult.kind = "map[string]interface{}") THEN Nil
             ELSE IF ~("data" \in DOMAIN firstResult.m
                       /\ firstResult.m["data"].kind = "[]interface{}") THEN Nil
             ELSE LET data == firstResult.m["data"].elems
                  IN  Rows([i \in DOMAIN data |->
                              IF data[i].kind = "map[string]interface{}" THEN data[i].m
                              ELSE Nil])

\* the rows ExecuteSQL takes out of a decoded raw-mode response
rowsOf(respBody) ==
    IF respBody.kind # "[]interface{}" \/ Len(respBody.elems) = 0 THEN Rows(<<>>)
    ELSE LET firstResult == respBody.elems[1]
         IN  IF ~(firstResult.kind = "map[string]interface{}") THEN Rows(<<>>)
             ELSE IF ~("data" \in DOMAIN firstResult.m
                       /\ firstResult.m["data"].kind = "[]interface{}") THEN Rows(<<>>)
             ELSE LET data == firstResult.m["data"].elems
                  IN  Rows([i \in DOMAIN data |->
                              IF data[i].kind = "map[string]interface{}" THEN data[i].m
                              ELSE Nil])

\* what ExecuteSQL returns for what doRawRequest returned
\* httpError: the *types.HTTPError in the chain of the error, if there is one
executeSQLReturn(respBody, e) ==
    IF e # NoErr
    THEN [rows |-> Nil, err |-> Wrap("SQL request failed: ", e), httpError |-> NilPtr]
    ELSE [rows |-> rowsOf(respBody), err |-> NoErr, httpError |-> NilPtr]

\* types.HTTPError: its message is the response body
HTTPError(statusCode, message) ==
    [kind |-> "HTTPError", StatusCode |-> statusCode, Message |-> message]

\* what ExecuteSQL returns when doRawRequest returned an HTTPError
executeSQLReturnHTTPError(e) ==
    [rows |-> Nil, err |-> Wrap("SQL request failed: ", e.Message), httpError |-> e]

\* response bodies: the text, and the value json.Unmarshal decodes it to
InvalidJSON == [kind |-> "invalid"]

RowsBody ==
    [message |-> <<"[{\"data\":[{\"id\":1},2]}]">>,
     decoded |-> WSlice(<<WMap("data" :> WSlice(<<WMap("id" :> WFloat(1)), WFloat(2)>>))>>)]

ObjectBody ==
    [message |-> <<"{\"error\":\"\"}">>, decoded |-> WMap("error" :> WString(<<>>))]

HtmlBody == [message |-> <<"<html>">>, decoded |-> InvalidJSON]

\* what httpClient.Do may return while the context is live
Answers ==
    {[err |-> ErrConnectionRefused, statusCode |-> 0, body |-> HtmlBody]}
    \cup {[err |-> NoErr, statusCode |-> 200, body |-> b] :
             b \in {RowsBody, ObjectBody, HtmlBody}}
    \cup {[err |-> NoErr, statusCode |-> s, body |-> ObjectBody] : s \in {400, 500}}

CanceledAnswer == [err |-> ErrContextCanceled, statusCode |-> 0, body |-> HtmlBody]

\* httpClient.Do has not returned yet
NoAnswer == [err |-> NoErr, statusCode |-> 0, body |-> HtmlBody]

Configs ==
    {[baseURL |-> u, maxRetries |-> m, retryDelay |-> d] :
        u \in {<<"http://localhost:9308">>, <<":", "//localhost">>},
        m \in (0 - 1)..MaxRetries, d \in {0, 1}}

Statements == {<<"SHOW TABLES">>, <<"SELECT * FROM t WHERE MATCH(", Quote, "a", Quote, ")">>}

InitClient ==
    /\ pc = "doRawRequest"
    /\ cfg \in Configs
    /\ req \in {[method |-> "POST", endpoint |-> <<"/sql?mode=raw">>, query |-> q] :
                   q \in Statements}
    /\ ctx \in {Background, [done |-> TRUE, at |-> "before", seen |-> 0]}
    /\ attempt = 0
    /\ sel = "none"
    /\ lastErr = NoErr
    /\ events = <<>>
    /\ ret = NoReturn
    /\ ValueIdle
    /\ SqlIdle
    /\ HttpIdle
    /\ ExecIdle

otherVars == <<valueVars, sqlVars, httpVars, execVars>>

\* the head of the loop: leave it, enter the select of the delay, or go on to
\* the first attempt
LoopHead ==
    /\ pc = "doRawRequest"
    /\ IF ~loopContinues(attempt, cfg.maxRetries)
       THEN /\ ret' = executeSQLReturn(Nil, failedAfter(cfg.maxRetries + 1, lastErr))
            /\ pc' = "done"
            /\ UNCHANGED sel
       ELSE IF attempt > 0
       THEN /\ pc' = "select"
            /\ sel' \in Pick(selectReady(ctx.done, cfg.retryDelay <= 0))
            /\ UNCHANGED ret
       ELSE /\ pc' = "NewRequest"
            /\ UNCHANGED <<sel, ret>>
    /\ UNCHANGED <<cfg, req, ctx, attempt, lastErr, events, otherVars>>

\* the caller cancels the context; a select blocked in the delay wakes up
Cancel ==
    /\ pc # "done"
    /\ ~ctx.done
    /\ LET blocked == pc = "select" /\ sel = "none"
       IN  /\ ctx' = [done |-> TRUE, at |-> IF blocked THEN "delay" ELSE pc,
                      seen |-> Len(events)]
           /\ IF blocked THEN sel' \in Pick(selectReady(TRUE, FALSE)) ELSE UNCHANGED sel
    /\ UNCHANGED <<pc, cfg, req, attempt, lastErr, events, ret, otherVars>>

\* the delay is over while the select blocks
TimerFires ==
    /\ pc = "select"
    /\ sel = "none"
    /\ sel' \in Pick(selectReady(ctx.done, TRUE))
    /\ UNCHANGED <<pc, cfg, req, ctx, attempt, lastErr, events, ret, otherVars>>

\* case <-ctx.Done()
SelectDone ==
    /\ pc = "select"
    /\ sel = "ctx"
    /\ ret' = executeSQLReturn(Nil, ErrContextCanceled)
    /\ sel' = "none"
    /\ pc' = "done"
    /\ UNCHANGED <<cfg, req, ctx, attempt, lastErr, events, otherVars>>

\* case <-time.After(c.retryDelay)
SelectTimer ==
    /\ pc = "select"
    /\ sel = "timer"
    /\ events' = Append(events, [kind |-> "wait", d |-> cfg.retryDelay])
    /\ sel' = "none"
    /\ pc' = "NewRequest"
    /\ UNCHANGED <<cfg, req, ctx, attempt, lastErr, ret, otherVars>>

\* the request is built and handed to httpClient.Do
StartAttempt ==
    /\ pc = "NewRequest"
    /\ \E r \in {newRequest(cfg, req, attempt)} :
          IF ~urlParses(r.url)
          THEN /\ ret' = executeSQLReturn(Nil, <<"failed to create request: ",
                                                "missing protocol scheme">>)
               /\ pc' = "done"
               /\ UNCHANGED events
          ELSE /\ events' = Append(events, [kind |-> "attempt", request |-> r,
                                            cancelled |-> ctx.done,
                                            answer |-> NoAnswer])
               /\ pc' = "Do"
               /\ UNCHANGED ret
    /\ UNCHANGED <<cfg, req, ctx, attempt, sel, lastErr, otherVars>>

\* httpClient.Do returns, and the loop body runs to its end
DoReturns ==
    /\ pc = "Do"
    /\ \E answer \in IF events[Len(events)].cancelled THEN {CanceledAnswer}
                     ELSE IF ctx.done THEN Answers \cup {CanceledAnswer}
                     ELSE Answers :
       /\ events' = [events EXCEPT ![Len(events)].answer = answer]
       /\ IF answer.err # NoErr
          THEN /\ lastErr' = answer.err
               /\ attempt' = attempt + 1
               /\ pc' = "doRawRequest"
               /\ UNCHANGED ret
          ELSE IF retryable(answer.statusCode, attempt, cfg.maxRetries)
          THEN /\ lastErr' = <<"server error: ">> \o Itoa(answer.statusCode)
               /\ attempt' = attempt + 1
               /\ pc' = "doRawRequest"
               /\ UNCHANGED ret
          ELSE /\ ret' = IF answer.statusCode >= 400
                         THEN executeSQLReturnHTTPError(
                                  HTTPError(answer.statusCode, answer.body.message))
                         ELSE IF answer.body.decoded = InvalidJSON
                         THEN executeSQLReturn(Nil, <<"failed to decode response: ",
                                                      "invalid character">>)
                         ELSE executeSQLReturn(answer.body.decoded, NoErr)
               /\ pc' = "done"
               /\ UNCHANGED <<lastErr, attempt>>
    /\ UNCHANGED <<cfg, req, ctx, sel, otherVars>>

NextClient ==
    LoopHead \/ Cancel \/ TimerFires \/ SelectDone \/ SelectTimer \/ StartAttempt
    \/ DoReturns

SpecClient == InitClient /\ [][NextClient]_vars

(***************************************************************************)
(* Properties of the retry loop.                                           *)
(***************************************************************************)
AttemptsMade == {i \in DOMAIN events : events[i].kind = "attempt"}

\* C15: one ExecuteSQL call makes at most maxRetries + 1 attempts, whatever
\* the backend answers, and the attempts alternate with the delays: every
\* attempt but the first comes right after one wait of the configured delay.
C15_BoundedAttemptsWithDelay ==
    /\ Cardinality(AttemptsMade) <= cfg.maxRetries + 1
    /\ \A i \in DOMAIN events :
          IF i % 2 = 1 THEN events[i].kind = "attempt"
          ELSE events[i].kind = "wait" /\ events[i].d = cfg.retryDelay

\* a call has used up all its attempts and has returned the transport
\* error of the last one
C15_Witness ==
    /\ pc = "done"
    /\ cfg.maxRetries = MaxRetries
    /\ Cardinality(AttemptsMade) = MaxRetries + 1
    /\ Len(events) = 2 * MaxRetries + 1
    /\ lastErr = ErrConnectionRefused
    /\ ret.err = Wrap("SQL request failed: ",
                      failedAfter(MaxRetries + 1, ErrConnectionRefused))

C17_AttemptsResendStatement ==
    \A i \in AttemptsMade :
        /\ events[i].request.method = req.method
        /\ events[i].request.url = cfg.baseURL \o req.endpoint
        /\ events[i].request.body = req.query
        /\ events[i].request = events[1].request

\* a statement with quotes has been sent a third time
C17_Witness ==
    /\ Cardinality(AttemptsMade) = 3
    /\ req.query # <<"SHOW TABLES">>
    /\ events[5].request.body = req.query
    /\ events[5].request = events[1].request

(***************************************************************************)
(* Errors of Execute by stage.  An error value is the sequence of its      *)
(* message pieces; fmt.Errorf("<tag>: %w", cause) puts the tag in front of *)
(* the cause's pieces and keeps the cause reachable by Unwrap, so the      *)
(* cause of a wrapped error is its Tail.                                   *)
(***************************************************************************)
ExecutionStageTags == {"SQL search failed: ", "simulated HTTP search failed: "}

Unwrap(e) == Tail(e)

\* the client was called for this request and the call failed
BackendCallFailed == pc \in {"return", "done"} /\ sent # <<>> /\ execErr # NoErr

\* Execute returned an error without reaching the client
FailedBeforeBackend == pc \in {"return", "done"} /\ Executed /\ sent = <<>> /\ execErr # NoErr

\* C18: an error Execute returns because the client call failed starts with
\* the stage tag of the path taken ("SQL search failed" on the text path,
\* "simulated HTTP search failed" on the JSON path) and has the client's
\* error as its cause; an error Execute returns without having called the
\* client carries neither tag.
C18_BackendErrorsTaggedByPath ==
    /\ BackendCallFailed =>
          /\ Head(execErr) = (IF needsHTTP(args) THEN "simulated HTTP search failed: "
                              ELSE "SQL search failed: ")
          /\ Unwrap(execErr) \in {o.err : o \in BackendOutcomes} \ {NoErr}
    /\ FailedBeforeBackend => \A i \in 1..Len(execErr) : execErr[i] \notin ExecutionStageTags

\* the client call of a JSON-path request has failed and Execute has
\* returned the wrapped error
C18_Witness ==
    /\ pc = "return"
    /\ needsHTTP(args)
    /\ sent # <<>>
    /\ execErr = <<"simulated HTTP search failed: ", "context canceled">>

(***************************************************************************)
(* The other tool handlers of the registry: show_tables, describe_table,   *)
(* insert_document and show_cluster_status.  Each maps its arguments,      *)
(* calls its collaborator (tables, documents, clusters), which builds one  *)
(* statement and hands it to the client, and wraps the outcome in a tool   *)
(* response.  A collaborator is modelled up to its client call: the        *)
(* statement it builds, or the error it returns without calling.           *)
(***************************************************************************)
Call(stmt, e) == [stmt |-> stmt, err |-> e]

ShowTables(a) ==
    Call(<<"SHOW TABLES">>
         \o (IF a.Pattern # <<>>
             THEN <<" LIKE '">>
                  \o ReplaceAll(ReplaceAll(a.Pattern, Backslash, <<Backslash, Backslash>>),
                                Quote, <<Backslash, Quote>>)
                  \o <<"'">>
             ELSE <<>>),
         NoErr)

DescribeTable(a) ==
    IF a.Table = <<>> THEN Call(<<>>, ErrTableRequired)
    ELSE Call(<<"DESCRIBE ">> \o buildTableName(a.Cluster, a.Table), NoErr)

ErrDocumentRequired == <<"document parameter is required and cannot be empty">>

\* order: the order the range over the document map takes
InsertDocument(a, order) ==
    IF a.Table = <<>> THEN Call(<<>>, ErrTableRequired)
    ELSE IF DOMAIN a.Document = {} THEN Call(<<>>, ErrDocumentRequired)
    ELSE LET set == SelectSeq(order, LAMBDA column : a.Document[column] # Nil)
             columns == (IF a.ID # NilPtr THEN << <<"id">> >> ELSE <<>>)
                        \o [i \in DOMAIN set |-> <<set[i]>>]
             values == (IF a.ID # NilPtr THEN <<Itoa(a.ID.n)>> ELSE <<>>)
                       \o [i \in DOMAIN set |-> formatValue(a.Document[set[i]])]
         IN  Call((IF a.Replace THEN <<"REPLACE INTO ">> ELSE <<"INSERT INTO ">>)
                  \o buildTableName(a.Cluster, a.Table) \o <<" (">>
                  \o Join(columns, <<", ">>) \o <<") VALUES (">>
                  \o Join(values, <<", ">>) \o <<")">>,
                  NoErr)

ShowClusterStatus(a) ==
    Call(<<"SHOW STATUS">>
         \o (IF a.Pattern # <<>>
             THEN <<" LIKE '">> \o ReplaceAll(a.Pattern, Quote, <<Quote, Quote>>) \o <<"'">>
             ELSE <<>>),
         NoErr)

ZeroMeta ==
    [Total |-> 0, Count |-> 0, Limit |-> 0, Offset |-> 0, Table |-> <<>>,
     Cluster |-> <<>>, Operation |-> <<>>]

\* a handler returns an error response before it calls its collaborator
ToolRejects(message, at) ==
    /\ response' = errorResponse(<<message>>)
    /\ pc' = at
    /\ UNCHANGED <<wire, compiled, sent, rows, execErr, args, sql, valueVars, httpVars,
                   clientVars>>

\* a handler calls its collaborator and wraps what comes back: the
\* collaborator's own error, the client's error under the collaborator's
\* stage tag, or the rows
ToolCall(call, stage, failed, operation, meta, at) ==
    \E outcome \in BackendOutcomes :
        \E e \in {IF call.err # NoErr THEN call.err
                  ELSE IF outcome.err # NoErr THEN Wrap(stage, outcome.err)
                  ELSE NoErr} :
            /\ sent' = IF call.err = NoErr THEN Append(sent, call.stmt) ELSE sent
            /\ rows' = IF e # NoErr THEN Nil ELSE outcome.rows
            /\ execErr' = e
            /\ response' =
                  IF e # NoErr THEN errorResponse(Wrap(failed, e))
                  ELSE successResponse(
                           [Success |-> TRUE, Error |-> <<>>, Data |-> outcome.rows,
                            Meta |-> [meta EXCEPT !.Operation = <<operation>>]])
            /\ pc' = at
            /\ UNCHANGED <<wire, compiled, args, sql, valueVars, httpVars, clientVars>>

HandleShowTablesTool ==
    /\ pc = "handleShowTablesTool"
    /\ LET tablesArgs == [Pattern |-> getStringArg(wire, "pattern"),
                          Cluster |-> getStringArg(wire, "cluster")]
       IN  ToolCall(ShowTables(tablesArgs), "show tables failed: ",
                    "Failed to show tables: ", "show_tables",
                    [ZeroMeta EXCEPT !.Cluster = tablesArgs.Cluster],
                    "showTablesReturned")

HandleDescribeTableTool ==
    /\ pc = "handleDescribeTableTool"
    /\ LET table == getStringArg(wire, "table")
           describeArgs == [Table |-> table, Cluster |-> getStringArg(wire, "cluster")]
       IN  IF table = <<>>
           THEN ToolRejects("Table parameter is required", "describeTableReturned")
           ELSE ToolCall(DescribeTable(describeArgs), "describe table failed: ",
                         "Failed to describe table: ", "describe_table",
                         [ZeroMeta EXCEPT !.Table = describeArgs.Table,
                                          !.Cluster = describeArgs.Cluster],
                         "describeTableReturned")

HandleInsertDocumentTool ==
    /\ pc = "handleInsertDocumentTool"
    /\ LET table == getStringArg(wire, "table")
       IN  IF table = <<>>
           THEN ToolRejects("Table parameter is required", "insertDocumentReturned")
           ELSE IF "document" \notin DOMAIN wire
           THEN ToolRejects("Document parameter is required", "insertDocumentReturned")
           ELSE IF wire["document"].kind # "map[string]interface{}"
           THEN ToolRejects("Document must be a valid object", "insertDocumentReturned")
           ELSE LET idVal == getIntArg(wire, "id")
                    insertArgs ==
                        [Table |-> table,
                         Cluster |-> getStringArg(wire, "cluster"),
                         Document |-> wire["document"].m,
                         Replace |-> getBoolArg(wire, "replace"),
                         ID |-> IF idVal # 0 THEN [kind |-> "int64", n |-> idVal]
                                ELSE NilPtr]
                IN  \E order \in Orders(DOMAIN insertArgs.Document) :
                        ToolCall(InsertDocument(insertArgs, order),
                                 "insert document failed: ",
                                 "Failed to insert document: ", "insert_document",
                                 [ZeroMeta EXCEPT !.Table = insertArgs.Table,
                                                  !.Cluster = insertArgs.Cluster],
                                 "insertDocumentReturned")

HandleClusterStatusTool ==
    /\ pc = "handleClusterStatusTool"
    /\ LET statusArgs == [Pattern |-> getStringArg(wire, "pattern")]
       IN  ToolCall(ShowClusterStatus(statusArgs), "show cluster status failed: ",
                    "Failed to get cluster status: ", "cluster_status", ZeroMeta,
                    "clusterStatusReturned")

\* tool arguments as they come off the wire
Patterns == {WString(<<"doc", "%">>), WString(<<Quote, Backslash>>), WFloat(1)}

TableNames == {WString(<<>>), WString(<<"documents">>), WFloat(7)}

Documents ==
    {WString(<<"title">>), WMap(EmptyMap),
     WMap("title" :> WString(<<"a", Quote>>)),
     WMap("title" :> WString(<<"a">>) @@ "views" :> WFloat(3)),
     WMap("title" :> Nil @@ "live" :> WBool(TRUE))}

ShowTablesRequests ==
    {p @@ c : p \in WireOpt("pattern", Patterns),
              c \in WireOpt("cluster", {WString(<<"c1">>)})}

DescribeTableRequests ==
    {t @@ c : t \in WireOpt("table", TableNames),
              c \in WireOpt("cluster", {WString(<<"c1">>)})}

InsertDocumentRequests ==
    {t @@ d @@ i @@ r :
        t \in WireOpt("table", TableNames),
        d \in WireOpt("document", Documents),
        i \in WireOpt("id", {WFloat(0), WFloat(5)}),
        r \in WireOpt("replace", {WBool(TRUE)})}

ClusterStatusRequests == {p : p \in WireOpt("pattern", Patterns)}

InitTools ==
    /\ ValueIdle
    /\ HttpIdle
    /\ sql = <<>>
    /\ compiled = <<>>
    /\ sent = <<>>
    /\ rows = Nil
    /\ execErr = NoErr
    /\ response = NoResponse
    /\ ClientIdle
    /\ args = ZeroArgs
    /\ \/ pc = "handleShowTablesTool" /\ wire \in ShowTablesRequests
       \/ pc = "handleDescribeTableTool" /\ wire \in DescribeTableRequests
       \/ pc = "handleInsertDocumentTool" /\ wire \in InsertDocumentRequests
       \/ pc = "handleClusterStatusTool" /\ wire \in ClusterStatusRequests

NextTools ==
    \/ HandleSearchTool \/ CallExecute \/ ClientExecuteSQL \/ Respond
    \/ HandleShowTablesTool \/ HandleDescribeTableTool
    \/ HandleInsertDocumentTool \/ HandleClusterStatusTool

\* the five tools of the registry
SpecTools == (Init \/ InitTools) /\ [][NextTools]_vars

(***************************************************************************)
(* What a tool handler hands back.                                         *)
(***************************************************************************)
\* a tool handler has returned
HandlerReturned ==
    \/ pc = "done" /\ wire # NoWire
    \/ pc \in {"showTablesReturned", "describeTableReturned", "insertDocumentReturned",
               "clusterStatusReturned"}

\* the tool arguments were refused before the collaborator was called
MappingFailed ==
    \/ pc = "done" /\ wire # NoWire /\ mapToSearchArgs(wire).err # NoErr
    \/ pc \in {"describeTableReturned", "insertDocumentReturned"}
       /\ getStringArg(wire, "table") = <<>>
    \/ pc = "insertDocumentReturned"
       /\ ("document" \notin DOMAIN wire \/ wire["document"].kind # "map[string]interface{}")

\* the request failed: in the mapping of its arguments, or in the
\* collaborator (compilation, or the backend's answer)
RequestFailed == MappingFailed \/ execErr # NoErr

\* C19: each of the five tool handlers returns a tool response and a nil Go
\* error on every path.  When the request failed (argument mapping,
\* compilation or the backend call) the response document is exactly
\* success=false and a non-empty error, which ends with the collaborator's
\* error when there is one, and has neither data nor meta; when nothing
\* failed it has success=true and no error.
C19_HandlersAnswerInBand ==
    HandlerReturned =>
        /\ response # NoResponse
        /\ response.err = NoErr
        /\ response.content # Nil
        /\ "success" \in DOMAIN response.content
        /\ RequestFailed =>
              /\ DOMAIN response.content = {"success", "error"}
              /\ response.content["success"] = FALSE
              /\ response.content["error"] # <<>>
              /\ execErr # NoErr => Tail(response.content["error"]) = execErr
        /\ ~RequestFailed =>
              /\ response.content["success"] = TRUE
              /\ "error" \notin DOMAIN response.content

\* the insert_document handler has returned a failure response for a
\* request the backend refused
C19_Witness ==
    /\ pc = "insertDocumentReturned"
    /\ sent # <<>>
    /\ execErr = <<"insert document failed: ", "connection refused">>
    /\ response.err = NoErr
    /\ response.content["success"] = FALSE

\* C20: compiling a search spec gives the same statement every time: the
\* statement buildSQL returned is the statement any other run of buildSQL
\* on the same spec returns, whatever order the range over the
\* field_weights map takes.
C20_CompileDeterministic ==
    (pc = "done" /\ sql # <<>>) =>
        \A order \in Orders(DOMAIN args.FieldWeights) : sql = buildSQL(args, order)

(***************************************************************************)
(* Both compilers on one search spec: Handler.buildSQL, then               *)
(* QueryBuilder.BuildHTTPQuery, each called on the same Args value.        *)
(***************************************************************************)
InitCompile ==
    /\ pc = "compile"
    /\ args \in SqlArgs \cup HttpArgs
    /\ sql = <<>>
    /\ ValueIdle
    /\ HttpIdle
    /\ ExecIdle
    /\ ClientIdle

CompileText ==
    /\ pc = "compile"
    /\ \E order \in Orders(DOMAIN args.FieldWeights) :
          sql' = buildSQL(args, order)
    /\ pc' = "compileJson"
    /\ UNCHANGED <<args, valueVars, httpVars, execVars, clientVars>>

CompileJson ==
    /\ pc = "compileJson"
    /\ \E r \in {BuildHTTPQuery(NewQueryBuilder(args.Cluster, args.Table), args)} :
          httpQuery' = r.doc /\ httpErr' = r.err
    /\ pc' = "done"
    /\ UNCHANGED <<args, sql, valueVars, execVars, clientVars>>

NextCompile == CompileText \/ CompileJson

SpecCompile == InitCompile /\ [][NextCompile]_vars

\* a sequence cut at every piece equal to sep
RECURSIVE SplitOn(_, _, _)
SplitOn(s, sep, cur) ==
    IF s = <<>> THEN <<cur>>
    ELSE IF Head(s) = sep THEN <<cur>> \o SplitOn(Tail(s), sep, <<>>)
    ELSE SplitOn(Tail(s), sep, Append(cur, Head(s)))

\* the options of a statement: what follows " OPTION ", cut at ", "
OptionsOf(s) ==
    IF KeywordAt(s, " OPTION ") = {} THEN <<>>
    ELSE LET at == CHOOSE i \in KeywordAt(s, " OPTION ") : TRUE
         IN  SplitOn(SubSeq(s, at + 1, Len(s)), ", ", <<>>)

\* the pieces the text compiler opens its options with, and their names
OptionHeads ==
    [ranker |-> "ranker=", max_matches |-> "max_matches=", cutoff |-> "cutoff=",
     max_query_time |-> "max_query_time=", field_weights |-> "field_weights=(",
     comment |-> "comment=", not_terms_only_allowed |-> "not_terms_only_allowed=",
     boolean_simplify |-> "boolean_simplify=0",
     accurate_aggregation |-> "accurate_aggregation=", rand_seed |-> "rand_seed=",
     morphology |-> "morphology=", token_filter |-> "token_filter=",
     max_predicted_time |-> "max_predicted_time=",
     agent_query_timeout |-> "agent_query_timeout=", retry_count |-> "retry_count=",
     retry_delay |-> "retry_delay=", fuzzy |-> "fuzzy=1", distance |-> "distance=",
     preserve |-> "preserve=", layouts |-> "layouts="]

\* name and value text of one option of a statement
TextOption(o) ==
    LET name == CHOOSE n \in DOMAIN OptionHeads : OptionHeads[n] = Head(o)
    IN  [name |-> name,
         value |-> IF name = "boolean_simplify" THEN <<"0">>
                   ELSE IF name = "fuzzy" THEN <<"1">>
                   ELSE IF name = "field_weights" THEN SubSeq(o, 2, Len(o) - 1)
                   ELSE Tail(o)]

TextOptions(s) == {TextOption(OptionsOf(s)[i]) : i \in DOMAIN OptionsOf(s)}

\* the value text of a statement option stands for the document's value v
SameValue(name, text, v) ==
    IF name \in {"ranker", "morphology"} THEN text = v
    ELSE IF name \in {"comment", "token_filter"}
    THEN /\ text # <<>>
         /\ Head(text) = Quote
         /\ ReadDoubled(Tail(text), <<>>) = [closed |-> TRUE, text |-> v, rest |-> <<>>]
    ELSE IF name = "field_weights"
    THEN Range(SplitOn(text, ",", <<>>)) = {<<k, "=">> \o Itoa(v[k]) : k \in DOMAIN v}
    ELSE text = Itoa(v)

\* C21: for one search spec, the names of the options in the statement's
\* OPTION clause are the names of the keys of the document's options block,
\* and each option has the same value in both.
C21_SameOptionsInBothForms ==
    (pc = "done" /\ httpErr = NoErr) =>
        LET text == TextOptions(sql)
            block == IF "options" \in DOMAIN httpQuery THEN httpQuery["options"]
                     ELSE EmptyMap
        IN  /\ {o.name : o \in text} = DOMAIN block
            /\ \A o \in text :
                  o.name \in DOMAIN block => SameValue(o.name, o.value, block[o.name])

\* the statement holds text right after the keyword at index i, and after
\* the text it ends or goes on with a LIMIT, OFFSET or OPTION clause
ClauseIs(s, i, text) ==
    /\ i + Len(text) <= Len(s)
    /\ SubSeq(s, i + 1, i + Len(text)) = text
    /\ i + Len(text) < Len(s) =>
          s[i + Len(text) + 1] \in {" ORDER BY ", " LIMIT ", " OFFSET ", " OPTION "}

\* C22: a statement of buildSQL holds at most one ORDER BY clause.  With a
\* group-by list it holds GROUP BY and the list, then ORDER BY and the
\* group sort exactly when a group sort is set, and nothing of order_by;
\* without a group-by list it holds no GROUP BY, and ORDER BY with the
\* order_by list exactly when the list is not empty.
C22_OneOrderBy ==
    pc = "done" =>
        LET groups == KeywordAt(sql, " GROUP BY ")
            orders == KeywordAt(sql, " ORDER BY ")
        IN  /\ Cardinality(orders) <= 1
            /\ Cardinality(groups) <= 1
            /\ Len(args.GroupBy) > 0 =>
                  /\ groups # {}
                  /\ \A g \in groups : ClauseIs(sql, g, Join(args.GroupBy, <<", ">>))
                  /\ orders # {} <=> args.GroupSort # <<>>
                  /\ \A o \in orders :
                        /\ ClauseIs(sql, o, args.GroupSort)
                        /\ \A g \in groups :
                              o = g + Len(Join(args.GroupBy, <<", ">>)) + 1
                        /\ \A j \in (o + Len(args.GroupSort) + 1)..Len(sql) :
                              sql[j] # " ORDER BY "
            /\ Len(args.GroupBy) = 0 =>
                  /\ groups = {}
                  /\ orders # {} <=> Len(args.OrderBy) > 0
                  /\ \A o \in orders : ClauseIs(sql, o, Join(args.OrderBy, <<", ">>))

\* a grouped statement of a spec that also has an order-by list different
\* from its group sort
C22_Witness ==
    /\ pc = "done"
    /\ Len(args.GroupBy) > 0
    /\ args.GroupSort # <<>>
    /\ Len(args.OrderBy) > 0
    /\ Join(args.OrderBy, <<", ">>) # args.GroupSort
    /\ KeywordAt(sql, " ORDER BY ") # {}

\* some runtime option of the spec is set
SomeOptionSet(a) ==
    \/ a.Ranker # <<>> \/ a.MaxMatches > 0 \/ a.Cutoff > 0 \/ a.MaxQueryTime > 0
    \/ DOMAIN a.FieldWeights # {} \/ a.Comment # <<>>
    \/ a.NotTermsOnlyAllowed > 0 \/ a.BooleanSimplify = 0
    \/ a.AccurateAggregation > 0 \/ a.RandSeed > 0 \/ a.Morphology # <<>>
    \/ a.TokenFilter # <<>> \/ a.MaxPredictedTime > 0
    \/ a.AgentQueryTimeout > 0 \/ a.RetryCount > 0 \/ a.RetryDelay > 0

\* C23: a document BuildHTTPQuery returns has no top-level key outside
\* table, query, limit, offset, _source, sort, highlight, options; table and
\* query are always there; table is the collection name, with the cluster
\* and a colon in front exactly when a cluster is given; limit, offset,
\* _source, sort, highlight and options are there exactly when limit > 0,
\* offset > 0, fields is not empty, order_by is not empty, highlight is
\* enabled, and at least one option is emitted (the block is never empty).
C23_TopLevelKeys ==
    (pc = "done" /\ httpErr = NoErr) =>
        /\ DOMAIN httpQuery \subseteq
              {"table", "query", "limit", "offset", "_source", "sort", "highlight",
               "options"}
        /\ {"table", "query"} \subseteq DOMAIN httpQuery
        /\ httpQuery["table"] = IF args.Cluster # <<>>
                                THEN args.Cluster \o <<":">> \o args.Table
                                ELSE args.Table
        /\ "limit" \in DOMAIN httpQuery <=> args.Limit > 0
        /\ "limit" \in DOMAIN httpQuery => httpQuery["limit"] = args.Limit
        /\ "offset" \in DOMAIN httpQuery <=> args.Offset > 0
        /\ "offset" \in DOMAIN httpQuery => httpQuery["offset"] = args.Offset
        /\ "_source" \in DOMAIN httpQuery <=> Len(args.Fields) > 0
        /\ "sort" \in DOMAIN httpQuery <=> Len(args.OrderBy) > 0
        /\ "highlight" \in DOMAIN httpQuery
              <=> (args.Highlight # NilPtr /\ args.Highlight.Enabled)
        /\ "options" \in DOMAIN httpQuery <=> SomeOptionSet(args)
        /\ "options" \in DOMAIN httpQuery => DOMAIN httpQuery["options"] # {}

\* a document for a spec with a cluster, a limit, an offset, fields and an
\* order-by list
C23_Witness ==
    /\ pc = "done"
    /\ httpErr = NoErr
    /\ args.Cluster # <<>>
    /\ args.Limit > 0
    /\ args.Offset > 0
    /\ Len(args.Fields) > 0
    /\ Len(args.OrderBy) > 0
    /\ Head(httpQuery["table"]) = Head(args.Cluster)
    /\ {"limit", "offset", "_source", "sort"} \subseteq DOMAIN httpQuery

\* the search tool has mapped its arguments and gone on to Execute
SearchToolExecuted ==
    /\ wire # NoWire
    /\ pc \in {"Execute", "ExecuteSQL", "return", "done"}
    /\ mapToSearchArgs(wire).err = NoErr

\* C24: the limit of a search the MCP search tool executes is never above
\* the configured MaxResultsPerQuery, and a request without a positive
\* limit is executed with MaxResultsPerQuery as its limit.
C24_LimitWithinMaxResults ==
    SearchToolExecuted =>
        /\ args.Limit <= MaxResultsPerQuery
        /\ getIntArg(wire, "limit") <= 0 => args.Limit = MaxResultsPerQuery

\* the predicate of a lowered statement: what stands between " WHERE " and
\* the LIMIT or OFFSET clause (or the end)
WhereOf(s) ==
    LET from == CHOOSE i \in KeywordAt(s, " WHERE ") : TRUE
        stops == {i \in DOMAIN s : i > from /\ s[i] \in {" LIMIT ", " OFFSET "}}
        to == IF stops = {} THEN Len(s)
              ELSE (CHOOSE i \in stops : \A j \in stops : i <= j) - 1
    IN  SubSeq(s, from + 1, to)

\* the lowering of one compiled clause, read with the key of its own match map
LoweringOf(c) ==
    appendQueryToSQL(c, IF "match" \in DOMAIN c /\ DOMAIN c["match"] # {}
                        THEN CHOOSE k \in DOMAIN c["match"] : TRUE
                        ELSE "*")

\* the structured path has lowered a compiled bool document to a statement
BoolDocLowered ==
    /\ JsonPathCompiled
    /\ pc \in {"ExecuteSQL", "return", "done"}
    /\ sql # <<>>
    /\ "bool" \in DOMAIN httpQuery["query"]

\* C25: the statement simulateHTTPQuery builds for a compiled bool document
\* has as its WHERE predicate the lowerings of the bool's must clauses, each
\* in parentheses, joined by AND, and 1=1 only when the bool has no must
\* clause; should and must_not clauses leave no trace in it.
C25_MustClausesLowered ==
    BoolDocLowered =>
        LET b == httpQuery["query"]["bool"]
            must == IF "must" \in DOMAIN b THEN b["must"].elems ELSE <<>>
        IN  /\ WhereOf(sql) = <<"1=1">> <=> must = <<>>
            /\ (must # <<>> /\ \A i \in DOMAIN must : LoweringOf(must[i]).err = NoErr) =>
                  WhereOf(sql) =
                      Join([i \in DOMAIN must |-> <<"(">> \o LoweringOf(must[i]).s \o <<")">>],
                           <<" AND ">>)

(***************************************************************************)
(* How an answer ends the retry loop or keeps it going.                    *)
(***************************************************************************)
\* the number, from 0, of the attempt logged at index i
AttemptNo(i) == (i - 1) \div 2

\* the last thing the call did was an attempt, and httpClient.Do has returned
\* a response for it
LastAnswered ==
    /\ events # <<>>
    /\ events[Len(events)].kind = "attempt"
    /\ pc # "Do"
    /\ events[Len(events)].answer.err = NoErr

\* an attempt after the first follows an attempt that ended in a transport
\* error or in a 5xx response with attempts remaining
RetriesOnlyTransient ==
    \A i \in AttemptsMade :
        i > 1 =>
            LET prev == events[i - 2].answer
            IN  \/ prev.err # NoErr
                \/ prev.statusCode >= 500 /\ AttemptNo(i - 2) < cfg.maxRetries

\* a 4xx response, and a 5xx response to the last allowed attempt, end the
\* call with an HTTPError of that status and body
ErrorStatusEndsCall ==
    LastAnswered =>
        LET last == events[Len(events)].answer
        IN  (\/ last.statusCode \in 400..499
             \/ last.statusCode >= 500 /\ AttemptNo(Len(events)) = cfg.maxRetries) =>
                /\ pc = "done"
                /\ ret.rows = Nil
                /\ ret.httpError = HTTPError(last.statusCode, last.body.message)

\* C26, as claimed: a further attempt follows only a transport error or a
\* 5xx response with attempts remaining; a 4xx response and a 5xx response
\* to the last allowed attempt end the call with an HTTPError of that status
\* and body; a response below 400 ends the call with the decoded result.
C26_AnswerDecidesRetry ==
    /\ RetriesOnlyTransient
    /\ ErrorStatusEndsCall
    /\ (LastAnswered /\ events[Len(events)].answer.statusCode < 400) =>
          /\ pc = "done"
          /\ ret = executeSQLReturn(events[Len(events)].answer.body.decoded, NoErr)

\* C26, amended: as claimed, except that a response below 400 ends the call
\* with the decoded result when its body is JSON, and with a 'failed to
\* decode response' error and no result when it is not.
C26_AnswerDecidesRetryOrDecodeError ==
    /\ RetriesOnlyTransient
    /\ ErrorStatusEndsCall
    /\ (LastAnswered /\ events[Len(events)].answer.statusCode < 400) =>
          LET body == events[Len(events)].answer.body
          IN  /\ pc = "done"
              /\ ret.httpError = NilPtr
              /\ IF body.decoded = InvalidJSON
                 THEN /\ ret.rows = Nil
                      /\ ret.err = <<"SQL request failed: ", "failed to decode response: ",
                                     "invalid character">>
                 ELSE ret = [rows |-> rowsOf(body.decoded), err |-> NoErr,
                             httpError |-> NilPtr]

\* a call was retried after a 500 response and ended by a 400 response
C26_Witness ==
    /\ pc = "done"
    /\ Cardinality(AttemptsMade) = 2
    /\ events[1].answer.statusCode = 500
    /\ events[3].answer.statusCode = 400
    /\ ret.httpError = HTTPError(400, ObjectBody.message)

(***************************************************************************)
(* Termination of a call.  httpClient.Do returns (the http.Client has a    *)
(* timeout), a timer that was started fires, and the goroutine of the call *)
(* keeps running: every step of the loop is weakly fair.  The caller need  *)
(* never cancel.                                                           *)
(***************************************************************************)
SpecClientLive ==
    /\ SpecClient
    /\ WF_vars(LoopHead)
    /\ WF_vars(TimerFires)
    /\ WF_vars(SelectDone)
    /\ WF_vars(SelectTimer)
    /\ WF_vars(StartAttempt)
    /\ WF_vars(DoReturns)

\* rows and no error, or an error and no rows
RowsOrError(r) ==
    \/ r.rows # Nil /\ r.rows.kind = "[]map[string]interface{}" /\ r.err = NoErr
    \/ r.rows = Nil /\ r.err # NoErr

\* C27: every ExecuteSQL call returns in the end, and what it returns is
\* either a row set (which may be empty) with no error, or an error with no
\* rows: never both, never neither.
C27_CallTerminatesWithRowsOrError ==
    /\ <>(pc = "done")
    /\ [](pc = "done" => RowsOrError(ret))

\* a call has returned an empty row set for a response that is no list of
\* result sets, after using up its retries
C27_Witness ==
    /\ pc = "done"
    /\ cfg.maxRetries = MaxRetries
    /\ Cardinality(AttemptsMade) = MaxRetries + 1
    /\ events[Len(events)].answer.body = ObjectBody
    /\ ret = [rows |-> Rows(<<>>), err |-> NoErr, httpError |-> NilPtr]

\* the statement carries one LIMIT clause, with the number n
HasLimit(s, n) ==
    /\ Cardinality(KeywordAt(s, " LIMIT ")) = 1
    /\ \A k \in KeywordAt(s, " LIMIT ") : ClauseIs(s, k, Itoa(n))

\* C28: every statement Handler.Execute hands to the client, on the text
\* path and on the JSON path, carries exactly one LIMIT clause with a
\* positive number: the limit of the request, or 10 when that is not
\* positive.
C28_SentStatementsCarryLimit ==
    LET n == IF args.Limit <= 0 THEN 10 ELSE args.Limit
    IN  /\ (pc = "ExecuteSQL" /\ execErr = NoErr) => (n > 0 /\ HasLimit(sql, n))
        /\ \A i \in DOMAIN sent : n > 0 /\ HasLimit(sent[i], n)

\* a text-path statement, and a JSON-path statement, of a request without a
\* limit has been sent with LIMIT 10
C28_Witness ==
    /\ sent # <<>>
    /\ args.Limit = 0
    /\ ~needsHTTP(args)
    /\ HasLimit(sent[1], 10)

\* C29: Handler.Execute and the compilers it calls leave the caller's search
\* spec as it was: from the call of Execute to its return, with a result or
\* with an error, no step changes any field of the spec (the limit and the
\* match mode are defaulted on the callee's copy only).
C29_CompileLeavesSpecUntouched ==
    [][(pc \in {"Execute", "ExecuteSQL", "return"}) => (args' = args)]_vars

\* Execute has compiled a request without limit and match mode to a statement
\* with LIMIT 10, and the caller's spec still has neither
C29_Witness ==
    /\ pc = "ExecuteSQL"
    /\ wire = NoWire
    /\ args.Limit = 0
    /\ args.MatchMode = <<>>
    /\ HasLimit(sql, 10)

(***************************************************************************)
(* documents.Handler.DeleteDocument, called with a DeleteDocumentArgs.  In *)
(* this specification args holds the DeleteDocumentArgs, sql the statement *)
(* built, and sent, rows and execErr what the client was given and what    *)
(* the call returned.                                                      *)
(***************************************************************************)
ErrIdOrConditionRequired == <<"either id or condition parameter is required">>

\* the WHERE parts of a delete: the id condition, then the custom condition
\* in parentheses
deleteWhereParts(a) ==
    (IF a.ID # NilPtr THEN << <<"id=">> \o Itoa(a.ID.n) >> ELSE <<>>)
    \o (IF a.Condition # <<>> THEN << <<"(">> \o a.Condition \o <<")">> >> ELSE <<>>)

\* a plausible slip: the test for a missing id and condition is left out
DeleteDocumentUnguarded(a) ==
    IF a.Table = <<>> THEN Call(<<>>, ErrTableRequired)
    ELSE Call(<<"DELETE FROM ">> \o buildTableName(a.Cluster, a.Table) \o <<" WHERE ">>
              \o Join(deleteWhereParts(a), <<" AND ">>),
              NoErr)

DeleteDocument(a) ==
    IF a.Table = <<>> THEN Call(<<>>, ErrTableRequired)
    ELSE IF a.ID = NilPtr /\ a.Condition = <<>> THEN Call(<<>>, ErrIdOrConditionRequired)
    ELSE Call(<<"DELETE FROM ">> \o buildTableName(a.Cluster, a.Table) \o <<" WHERE ">>
              \o Join(deleteWhereParts(a), <<" AND ">>),
              NoErr)

DeleteArgs ==
    {[Table |-> t, Cluster |-> c, ID |-> i, Condition |-> w] :
        t \in {<<>>, <<"docs">>},
        c \in {<<>>, <<"c1">>},
        i \in {NilPtr} \cup {[kind |-> "int64", n |-> n] : n \in {0 - 1, 0, 7}},
        w \in {<<>>, <<"category = 1">>, <<"a", Quote>>, <<" ">>}}

InitDelete ==
    /\ pc = "DeleteDocument"
    /\ args \in DeleteArgs
    /\ sql = <<>>
    /\ ValueIdle
    /\ HttpIdle
    /\ ExecIdle
    /\ ClientIdle

CallDeleteDocument ==
    /\ pc = "DeleteDocument"
    /\ \E call \in {DeleteDocument(args)}, outcome \in BackendOutcomes :
          /\ sql' = call.stmt
          /\ sent' = IF call.err = NoErr THEN Append(sent, call.stmt) ELSE sent
          /\ execErr' = IF call.err # NoErr THEN call.err
                        ELSE IF outcome.err # NoErr
                        THEN Wrap("delete document failed: ", outcome.err)
                        ELSE NoErr
          /\ rows' = IF call.err # NoErr \/ outcome.err # NoErr THEN Nil ELSE outcome.rows
    /\ pc' = "done"
    /\ UNCHANGED <<args, wire, compiled, response, valueVars, httpVars, clientVars>>

NextDelete == CallDeleteDocument

SpecDelete == InitDelete /\ [][NextDelete]_vars

\* C30: a DELETE statement handed to the client is DELETE FROM, the table
\* name, WHERE and a predicate that is not empty: the id condition, the
\* custom condition in parentheses, or the two joined by AND.  Without a
\* table, or with neither an id nor a condition, DeleteDocument returns an
\* error and nothing is sent.
C30_DeleteHasPredicate ==
    /\ \A i \in DOMAIN sent :
          LET s == sent[i]
              id == IF args.ID # NilPtr THEN <<"id=">> \o Itoa(args.ID.n) ELSE <<>>
              cond == IF args.Condition # <<>>
                      THEN <<"(">> \o args.Condition \o <<")">> ELSE <<>>
          IN  /\ Head(s) = "DELETE FROM "
              /\ Cardinality(KeywordAt(s, " WHERE ")) = 1
              /\ \A k \in KeywordAt(s, " WHERE ") :
                    /\ k < Len(s)
                    /\ SubSeq(s, 2, k - 1) = buildTableName(args.Cluster, args.Table)
                    /\ SubSeq(s, k + 1, Len(s)) =
                          IF id # <<>> /\ cond # <<>> THEN id \o <<" AND ">> \o cond
                          ELSE id \o cond
    /\ (pc = "done"
        /\ (args.Table = <<>> \/ (args.ID = NilPtr /\ args.Condition = <<>>))) =>
          /\ sent = <<>>
          /\ rows = Nil
          /\ execErr \in {ErrTableRequired, ErrIdOrConditionRequired}

\* a delete by id and condition has been handed to the client
C30_Witness ==
    /\ pc = "done"
    /\ args.ID # NilPtr
    /\ args.Condition # <<>>
    /\ Len(sent) = 1
    /\ execErr = NoErr

====
